---- MODULE Spec2Model ----
(***************************************************************************)
(* BitAxe Dashboard: telemetry ingestion, alerting and the offline         *)
(* watchdog.  The repository holds three revisions of the application,     *)
(* which share the miner_data table but not their alerting code:           *)
(*   "services"  src/src/routes/api.py + src/src/services/*.py             *)
(*               + src/src/models/__init__.py   (AlertService, AlertLog)   *)
(*   "legacy"    src/src/web/api.py + src/src/service/check_online.py      *)
(*               + src/src/db/database.py (hard-coded thresholds)          *)
(*   "run"       src/run.py (monitoring loop over the latest sample)       *)
(* The variable revision says which of them is deployed.                   *)
(*                                                                         *)
(* Modelling conventions:                                                  *)
(*   - time is counted in whole minutes; datetime.now() is the variable    *)
(*     now.  Rows written in the same minute keep their insertion order    *)
(*     (the real clock has microsecond resolution), so "latest by          *)
(*     timestamp" is the row with the greatest (timestamp, id);            *)
(*   - Python floats are modelled on the integer grid;                     *)
(*   - an optional value (None or v) is the sequence <<>> or <<v>>.        *)
(***************************************************************************)
EXTENDS Integers, Sequences, FiniteSets, TLC

VARIABLES
    revision,       \* which revision of the application is deployed
    now,            \* wall clock, minutes
    ticks,          \* number of clock advances so far
    miner_data,     \* table miner_data: sequence of rows
    settings,       \* table settings: key -> <<>> (no row) or <<text>>
    alert_logs,     \* table alert_logs: sequence of rows
    notifications,  \* calls that reached the notification sink
    requests,       \* history: one record per handled ingestion request
    checks,         \* history: one record per watchdog / monitoring run
    updates,        \* number of settings updates handled so far
    scheduler_cooldown, \* cooldown_minutes of the scheduler's AlertService
    limits,         \* how many requests, watchdog runs, settings updates and
                    \* clock advances the behaviour may take
    loop,           \* the background loop: running, and how its last
                    \* iteration ended
    difficulty,     \* a difficulty string handed to the parser, and its result
    overview,       \* history: one record per run of the difficulty projection
    cleanups,       \* history: one record per run of a cleanup job
    set_calls,      \* the calls of Settings.set_setting in progress
    startups,       \* history: one record per start of the application
    ingests,        \* the ingestion requests in progress on request threads
    sched,          \* the scheduler: instance, threads, registered jobs
    dash,           \* LAST_DATA_SAVE and the dashboard clients' stored times
    projection      \* a mean hash rate and a difficulty, and their chances

vars == <<revision, now, ticks, miner_data, settings, alert_logs,
          notifications, requests, checks, updates, scheduler_cooldown,
          limits, loop, difficulty, overview, cleanups, set_calls, startups,
          ingests, sched, dash, projection>>

(***************************************************************************)
(* Bounds of the model.                                                    *)
(***************************************************************************)
MaxRequests == 3
MaxLegacyRequests == 2
MaxRunRequests == 2
MaxTicks == 1
MaxChecks == 1
MaxUpdates == 1

Revisions == {"services", "legacy", "run"}

\* Clock advances offered to the model: one minute more than the staleness
\* window (= the default cooldown), and one day.
TickSteps == {31, 1440}

(***************************************************************************)
(* Optional values and Python values.                                      *)
(***************************************************************************)
None == <<>>
Some(v) == <<v>>
IsNone(o) == o = <<>>

\* A Python value as returned by Settings.get_setting: float, bool or str.
PyFloat(k) == [t |-> "float", n |-> k, s |-> ""]
PyBool(b) == [t |-> "bool", n |-> IF b THEN 1 ELSE 0, s |-> ""]
PyStr(x) == [t |-> "str", n |-> 0, s |-> x]

\* Python truthiness of a value / of an optional number (None and 0 are falsy).
PyTruthy(v) == IF v.t = "str" THEN v.s # "" ELSE v.n # 0
Truthy(o) == o # <<>> /\ o[1] # 0

\* A comparison or an addition with a str operand raises TypeError.
IsNumber(v) == v.t \in {"float", "bool"}

(***************************************************************************)
(* Settings: the value column is text.  set_setting stores str(value),     *)
(* get_setting converts the text back.                                     *)
(***************************************************************************)
\* Text: a decimal numeral (num = TRUE, its value n) or another string s.
NumText(k) == [num |-> TRUE, n |-> k, s |-> ""]
StrText(x) == [num |-> FALSE, n |-> 0, s |-> x]

\* JSON values of a settings body.
JNum(k) == [t |-> "num", n |-> k, s |-> ""]
JBool(b) == [t |-> "bool", n |-> IF b THEN 1 ELSE 0, s |-> ""]
JStr(x) == [t |-> "str", n |-> 0, s |-> x]

\* Python's str(): 66 -> "66", True -> "True", False -> "False", "abc" -> "abc".
Str(j) ==
    CASE j.t = "num" -> NumText(j.n)
      [] j.t = "bool" -> StrText(IF j.n = 1 THEN "True" ELSE "False")
      [] OTHER -> StrText(j.s)

\* str.lower() on the strings of the model.
Lower(x) ==
    CASE x = "True" -> "true"
      [] x = "False" -> "false"
      [] OTHER -> x

\* The keys of the settings table: those of the services revision and those
\* of run.py.
SettingKeys ==
    {"temp_limit", "vr_temp_limit", "power_limit", "reject_rate_limit",
     "offline_alert_enabled", "telegram_enabled", "alert_cooldown_minutes",
     "telegram_token", "telegram_chat_id",
     "temp_high_threshold", "vrtemp_high_threshold", "hashrate_low_threshold",
     "hashrate_high_threshold", "power_high_threshold", "alert_interval",
     "shares_reject_limit", "offline_alarm_enabled", "power_consumption_limit"}

\* Settings.get_setting(key, default): "true"/"false" (any case) -> bool,
\* a numeral -> float, anything else -> the raw string; no row -> default.
get_setting(S, key, default) ==
    IF S[key] = <<>> THEN default
    ELSE LET v == S[key][1] IN
         IF v.num THEN PyFloat(v.n)
         ELSE IF Lower(v.s) \in {"true", "false"} THEN PyBool(Lower(v.s) = "true")
         ELSE PyStr(v.s)

\* Settings.set_setting(key, value): update the row or insert it.
set_setting(S, key, value) == [S EXCEPT ![key] = <<Str(value)>>]

(***************************************************************************)
(* Ingestion payloads (the JSON object a device posts).                    *)
(***************************************************************************)
BasePayload ==
    [power |-> Some(12), temp |-> Some(60), hashRate |-> Some(450),
     vrTemp |-> Some(60), sharesAccepted |-> Some(100), sharesRejected |-> Some(1),
     bestDiff |-> Some("50.0M"), bestSessionDiff |-> Some("50.0M"),
     isUsingFallbackStratum |-> FALSE]

\* The payloads offered to the services revision: a hot sample, a critical
\* one, one reading 0 degrees and one of normal temperature on the fallback
\* stratum.
ServicePayloads ==
    {[BasePayload EXCEPT !.temp = Some(70)],
     [BasePayload EXCEPT !.temp = Some(90)],
     [BasePayload EXCEPT !.temp = Some(0)],
     [BasePayload EXCEPT !.isUsingFallbackStratum = TRUE]}

\* Those offered to the legacy revision: a normal sample, a hot one and one
\* with a new best difficulty.
LegacyPayloads ==
    {BasePayload,
     [BasePayload EXCEPT !.temp = Some(70)],
     [BasePayload EXCEPT !.bestDiff = Some("60.0M")]}

\* Those offered to run.py: a normal sample, a critical one and one reading
\* 0 degrees.
RunPayloads ==
    {BasePayload,
     [BasePayload EXCEPT !.temp = Some(90)],
     [BasePayload EXCEPT !.temp = Some(0)]}

\* A request body: a non-empty JSON object, an empty one ({} or null), or
\* bytes that are not JSON.
Bodies(payloads) ==
    [kind : {"object"}, data : payloads]
        \cup [kind : {"empty", "malformed"}, data : {BasePayload}]

(***************************************************************************)
(* Tables.                                                                 *)
(***************************************************************************)
MaxId(rows) ==
    IF rows = <<>> THEN 0
    ELSE CHOOSE m \in {rows[i].id : i \in DOMAIN rows} :
            \A i \in DOMAIN rows : rows[i].id <= m

\* Faulty variant: the query orders by timestamp ascending.
LatestRow_Oldest(rows) == IF rows = <<>> THEN None ELSE Some(rows[1])

\* MinerData.query.order_by(MinerData.timestamp.desc()).first()
LatestRow(rows) ==
    IF rows = <<>> THEN None
    ELSE Some(CHOOSE r \in {rows[i] : i \in DOMAIN rows} :
                \A i \in DOMAIN rows :
                    \/ rows[i].timestamp < r.timestamp
                    \/ rows[i].timestamp = r.timestamp /\ rows[i].id <= r.id)

\* MinerData(...) of receive_miner_data: the row built from the payload.
\* str(data.get('bestDiff', '')) turns a missing difficulty into ''.
NewRow(d, id, t) ==
    [id |-> id, timestamp |-> t,
     power |-> d.power, temp |-> d.temp, vr_temp |-> d.vrTemp,
     hash_rate |-> d.hashRate,
     best_diff |-> IF d.bestDiff = None THEN "" ELSE d.bestDiff[1],
     best_session_diff |-> IF d.bestSessionDiff = None THEN "" ELSE d.bestSessionDiff[1],
     shares_accepted |-> d.sharesAccepted, shares_rejected |-> d.sharesRejected,
     is_using_fallback_stratum |-> d.isUsingFallbackStratum]

(***************************************************************************)
(* AlertService (src/src/services/alerts.py).                              *)
(* A rule check is evaluated to [raised, alerts]: the alerts it hands to   *)
(* _send_alert, in order, and whether it ended by raising an exception.    *)
(***************************************************************************)
DefaultTempLimit == 66
DefaultVrTempLimit == 78
DefaultPowerLimit == 20
DefaultCooldownMinutes == 30
CriticalMargin == 10
OfflineMinutes == 30
\* reject_rate_limit defaults to 0.5 and is multiplied by 100 before use.
DefaultRejectLimitTimes100 == 50

Alert(type, value, threshold, severity) ==
    [alert_type |-> type, value |-> value, threshold |-> threshold,
     severity |-> severity]

NoAlerts == [raised |-> FALSE, alerts |-> <<>>]
Raised == [raised |-> TRUE, alerts |-> <<>>]
Fire(a) == [raised |-> FALSE, alerts |-> <<a>>]

\* Sequential composition: what follows an exception is not executed.
Then(r1, r2) ==
    IF r1.raised THEN r1
    ELSE [raised |-> r2.raised, alerts |-> r1.alerts \o r2.alerts]

\* Faulty variant: the cooldown lookup never finds a row.
_is_in_cooldown_Never(logs, t, cd, type) == FALSE

\* AlertService._is_in_cooldown: a row of that type newer than
\* now - cooldown_minutes.  (timedelta(minutes=<str>) raises TypeError: see
\* Gated.)
_is_in_cooldown(logs, t, cd, type) ==
    \E i \in DOMAIN logs :
        logs[i].alert_type = type /\ logs[i].timestamp > t - cd.n

\* Faulty variant: the alert is handed to _send_alert whatever the cooldown says.
Gated_AlwaysLogs(logs, t, cd, a) ==
    IF ~IsNumber(cd) THEN Raised ELSE Fire(a)

\* "if not self._is_in_cooldown(type): self._send_alert(...)"
Gated(logs, t, cd, a) ==
    IF ~IsNumber(cd) THEN Raised
    ELSE IF _is_in_cooldown(logs, t, cd, a.alert_type) THEN NoAlerts
    ELSE Fire(a)

\* "if x and x > limit: <gated alert>" for an optional number x.
Threshold(logs, t, cd, x, limit, type) ==
    IF ~Truthy(x) THEN NoAlerts
    ELSE IF ~IsNumber(limit) THEN Raised
    ELSE IF x[1] > limit.n
         THEN Gated(logs, t, cd, Alert(type, x, Some(limit.n), "warning"))
    ELSE NoAlerts

\* The critical check of _check_temperature_alerts: temp_limit + 10 is
\* computed first, and the alert is not gated by the cooldown.
CriticalCheck(data, temp_limit) ==
    IF ~IsNumber(temp_limit) THEN Raised
    ELSE IF Truthy(data.temp) /\ data.temp[1] > temp_limit.n + CriticalMargin
         THEN Fire(Alert("critical_temp", data.temp,
                         Some(temp_limit.n + CriticalMargin), "critical"))
    ELSE NoAlerts

_check_temperature_alerts(data, S, logs, t, cd) ==
    LET temp_limit == get_setting(S, "temp_limit", PyFloat(DefaultTempLimit))
        vr_temp_limit == get_setting(S, "vr_temp_limit", PyFloat(DefaultVrTempLimit))
    IN Then(Threshold(logs, t, cd, data.temp, temp_limit, "high_temp"),
       Then(Threshold(logs, t, cd, data.vr_temp, vr_temp_limit, "high_vr_temp"),
            CriticalCheck(data, temp_limit)))

_check_power_alerts(data, S, logs, t, cd) ==
    Threshold(logs, t, cd, data.power,
              get_setting(S, "power_limit", PyFloat(DefaultPowerLimit)), "high_power")

\* MinerData.reject_rate as the pair <<rejected, total>> (0 when a count is
\* missing or zero); the rate in percent is 100 * rejected / total.
reject_rate(data) ==
    IF ~Truthy(data.shares_accepted) \/ ~Truthy(data.shares_rejected)
    THEN <<0, 1>>
    ELSE LET total == data.shares_accepted[1] + data.shares_rejected[1] IN
         IF total > 0 THEN <<data.shares_rejected[1], total>> ELSE <<0, 1>>

\* reject_rate_limit * 100: a stored numeral k gives 100 k, the default 0.5
\* gives 50; a stored str is repeated 100 times and the comparison raises.
RejectLimitTimes100(S) ==
    IF S["reject_rate_limit"] = <<>> THEN PyFloat(DefaultRejectLimitTimes100)
    ELSE LET v == get_setting(S, "reject_rate_limit", PyFloat(0)) IN
         IF IsNumber(v) THEN PyFloat(100 * v.n) ELSE v

\* "if data.reject_rate > reject_rate_limit * 100: <gated alert>"
RejectRateCheck(data, S, logs, t, cd) ==
    LET limit == RejectLimitTimes100(S)
        rr == reject_rate(data)
    IN IF ~IsNumber(limit) THEN Raised
       ELSE IF 100 * rr[1] > limit.n * rr[2]
            THEN Gated(logs, t, cd,
                       Alert("high_reject_rate", Some((100 * rr[1]) \div rr[2]),
                             Some(limit.n), "warning"))
       ELSE NoAlerts

\* hash_rate < previous.hash_rate * (1 - 0.2)
HashRateDropCheck(data, previous_data, logs, t, cd) ==
    IF previous_data # None /\ Truthy(data.hash_rate)
       /\ Truthy(previous_data[1].hash_rate)
       /\ 5 * data.hash_rate[1] < 4 * previous_data[1].hash_rate[1]
    THEN Gated(logs, t, cd,
               Alert("hash_rate_drop", data.hash_rate,
                     Some((4 * previous_data[1].hash_rate[1]) \div 5), "warning"))
    ELSE NoAlerts

_check_performance_alerts(data, previous_data, S, logs, t, cd) ==
    Then(RejectRateCheck(data, S, logs, t, cd),
         HashRateDropCheck(data, previous_data, logs, t, cd))

\* Transitions of the fallback flag; neither alert is gated by the cooldown.
_check_network_alerts(data, previous_data) ==
    IF data.is_using_fallback_stratum
    THEN IF previous_data = None \/ ~previous_data[1].is_using_fallback_stratum
         THEN Fire(Alert("fallback_stratum", None, None, "warning"))
         ELSE NoAlerts
    ELSE IF previous_data # None /\ previous_data[1].is_using_fallback_stratum
         THEN Fire(Alert("stratum_recovery", None, None, "info"))
         ELSE NoAlerts

\* float(text) on the difficulty strings of the model: a plain numeral
\* converts, a string with a magnitude suffix raises ValueError.
FloatOf(x) ==
    CASE x = "100" -> Some(100)
      [] x = "200" -> Some(200)
      [] OTHER -> None

\* "float(x) if x else 0" for both samples inside one try/except ValueError:
\* no alert when either conversion fails.
BestCheck(cur, prev, type) ==
    LET c == IF cur = "" THEN Some(0) ELSE FloatOf(cur)
        p == IF prev = "" THEN Some(0) ELSE FloatOf(prev)
    IN IF c = None \/ p = None THEN NoAlerts
       ELSE IF c[1] > p[1] /\ c[1] > 0
            THEN Fire(Alert(type, c, None, "info"))
       ELSE NoAlerts

_check_achievement_alerts(data, previous_data) ==
    IF previous_data = None THEN NoAlerts
    ELSE Then(BestCheck(data.best_diff, previous_data[1].best_diff, "new_best_diff"),
              BestCheck(data.best_session_diff, previous_data[1].best_session_diff,
                        "new_session_best"))

\* AlertService.check_alerts: the five checks in order inside one try; an
\* exception is logged and ends the evaluation.
check_alerts(data, previous_data, S, logs, t, cd) ==
    Then(_check_temperature_alerts(data, S, logs, t, cd),
    Then(_check_power_alerts(data, S, logs, t, cd),
    Then(_check_performance_alerts(data, previous_data, S, logs, t, cd),
    Then(_check_network_alerts(data, previous_data),
         _check_achievement_alerts(data, previous_data)))))

(***************************************************************************)
(* Sending: the alert log and the notification sink.                       *)
(***************************************************************************)
\* TelegramService.send_message: one call of the sink.  result is "ok" or
\* "failed" (the service has no credentials, or the post ends by an error
\* response or an exception, caught and logged: the call returns False).
send_message(notifs, type, t, result, src) ==
    Append(notifs, [alert_type |-> type, time |-> t, result |-> result, src |-> src])

\* Faulty variant: a failed send takes the AlertLog row back.
_send_alert_RollsBackOnFailure(st, a, S, t, result, src) ==
    [logs |-> IF PyTruthy(get_setting(S, "telegram_enabled", PyBool(FALSE)))
                 /\ result = "failed"
              THEN st.logs
              ELSE Append(st.logs,
                          [id |-> MaxId(st.logs) + 1, timestamp |-> t,
                           alert_type |-> a.alert_type, value |-> a.value,
                           threshold |-> a.threshold, severity |-> a.severity]),
     notifs |-> IF PyTruthy(get_setting(S, "telegram_enabled", PyBool(FALSE)))
                THEN send_message(st.notifs, a.alert_type, t, result, src)
                ELSE st.notifs]

\* Faulty variant: the alert is logged and the message is never sent.
_send_alert_NeverSends(st, a, S, t, result, src) ==
    [logs |-> Append(st.logs,
                     [id |-> MaxId(st.logs) + 1, timestamp |-> t,
                      alert_type |-> a.alert_type, value |-> a.value,
                      threshold |-> a.threshold, severity |-> a.severity]),
     notifs |-> st.notifs]

\* AlertService._send_alert on st = [logs, notifs]: the AlertLog row is
\* committed, then the message is sent if telegram_enabled is set.
_send_alert(st, a, S, t, result, src) ==
    [logs |-> Append(st.logs,
                     [id |-> MaxId(st.logs) + 1, timestamp |-> t,
                      alert_type |-> a.alert_type, value |-> a.value,
                      threshold |-> a.threshold, severity |-> a.severity]),
     notifs |-> IF PyTruthy(get_setting(S, "telegram_enabled", PyBool(FALSE)))
                THEN send_message(st.notifs, a.alert_type, t, result, src)
                ELSE st.notifs]

RECURSIVE SendAll(_, _, _, _, _, _)
SendAll(st, alerts, S, t, result, src) ==
    IF alerts = <<>> THEN st
    ELSE SendAll(_send_alert(st, Head(alerts), S, t, result, src),
                 Tail(alerts), S, t, result, src)

SendResults == {"ok", "failed"}

\* The alert types of a sequence of alerts / rows / notifications.
Types(xs) == [i \in DOMAIN xs |-> xs[i].alert_type]
Has(types, type) == \E i \in DOMAIN types : types[i] = type
Count(types, type) == Cardinality({i \in DOMAIN types : types[i] = type})

(***************************************************************************)
(* services revision: POST /api/data (src/src/routes/api.py).              *)
(***************************************************************************)
\* One record of the history variable requests.
\* early: the alert types notified before the row was written.
\* The payload of an accepted request is the row id of miner_data.
Request(body, status, id, prev, evaluated, raised, logged, sent, early, result) ==
    [time |-> now, kind |-> body.kind, status |-> status, id |-> id, prev |-> prev,
     evaluated |-> evaluated, raised |-> raised, logged |-> logged, sent |-> sent,
     early |-> early, result |-> IF sent = <<>> THEN "none" ELSE result,
     settings |-> settings, alerts_before |-> MaxId(alert_logs),
     rows_before |-> Len(miner_data), revision |-> revision]

\* A request that ends before anything is written.
Rejected(body, status) ==
    /\ requests' = Append(requests,
                          Request(body, status, 0, 0, FALSE, FALSE, <<>>, <<>>, <<>>, "ok"))
    /\ UNCHANGED <<miner_data, alert_logs, notifications>>

\* Faulty variant: the storage error is answered 500 but the row stays.
StorageError_NoRollback(body) ==
    /\ requests' = Append(requests,
                          Request(body, 500, 0, 0, FALSE, FALSE, <<>>, <<>>, <<>>, "ok"))
    /\ miner_data' = Append(miner_data, NewRow(body.data, MaxId(miner_data) + 1, now))
    /\ UNCHANGED <<alert_logs, notifications>>

\* The storage error of an ingestion: "db.session.rollback()" and the answer
\* 500; the new row does not persist and nothing after the commit has run.
StorageError(body) == Rejected(body, 500)

MissingRequired(data) ==
    data.power = None \/ data.temp = None \/ data.hashRate = None

\* db_ok: whether the commit of the new row succeeds; result: what the
\* notification sink does with the messages of this request.
receive_miner_data(body, db_ok, result) ==
    /\ revision = "services"
    /\ Len(requests) < limits.requests
    /\ LET data == body.data
           last_data == LatestRow(miner_data)
           row == NewRow(data, MaxId(miner_data) + 1, now)
           cd == get_setting(settings, "alert_cooldown_minutes",
                             PyFloat(DefaultCooldownMinutes))
           ev == check_alerts(row, last_data, settings, alert_logs, now, cd)
           st == SendAll([logs |-> alert_logs, notifs |-> notifications],
                         ev.alerts, settings, now, result, Len(requests) + 1)
       IN CASE body.kind = "malformed" ->
                 \* request.get_json() raises BadRequest inside the try;
                 \* "except Exception" answers 500
                 Rejected(body, 500)
            [] body.kind = "empty" -> Rejected(body, 400)
            [] body.kind = "object" /\ MissingRequired(data) -> Rejected(body, 400)
            [] body.kind = "object" /\ ~MissingRequired(data) /\ ~db_ok ->
                 \* SQLAlchemyError: rollback, 500
                 StorageError(body)
            [] OTHER ->
                 /\ miner_data' = Append(miner_data, row)
                 /\ alert_logs' = st.logs
                 /\ notifications' = st.notifs
                 /\ requests' = Append(requests,
                        Request(body, 200, row.id,
                                IF last_data = None THEN 0 ELSE last_data[1].id,
                                TRUE, ev.raised, Types(ev.alerts),
                                Types(SubSeq(st.notifs, Len(notifications) + 1,
                                             Len(st.notifs))),
                                <<>>, result))
    /\ UNCHANGED <<revision, ingests, sched, dash, projection, difficulty, overview, cleanups, set_calls,
                   startups, limits, loop, now, ticks, settings, checks, updates,
                   scheduler_cooldown>>

(***************************************************************************)
(* services revision: POST /api/settings (src/src/routes/api.py).          *)
(***************************************************************************)
RecognizedKeys ==
    {"temp_limit", "vr_temp_limit", "power_limit", "reject_rate_limit",
     "offline_alert_enabled", "telegram_enabled", "alert_cooldown_minutes"}

\* The settings bodies offered to the model: partial JSON objects, key -> value.
SettingsBodies ==
    {[k \in {"telegram_enabled"} |-> JBool(TRUE)],
     [k \in {"temp_limit"} |-> JNum(-11)],
     [k \in {"alert_cooldown_minutes"} |-> JStr("abc")],
     [k \in {"offline_alert_enabled", "telegram_token"} |->
         IF k = "offline_alert_enabled" THEN JBool(FALSE) ELSE JStr("token")]}

\* "for key, value in data.items(): if key in [...]: Settings.set_setting"
ApplySettings(S, body) ==
    [k \in SettingKeys |->
        IF k \in DOMAIN body /\ k \in RecognizedKeys
        THEN set_setting(S, k, body[k])[k]
        ELSE S[k]]

update_settings(body) ==
    /\ revision = "services"
    /\ updates < limits.updates
    /\ settings' = ApplySettings(settings, body)
    /\ updates' = updates + 1
    /\ UNCHANGED <<revision, ingests, sched, dash, projection, difficulty, overview, cleanups, set_calls,
                   startups, limits, loop, now, ticks, miner_data, alert_logs, notifications,
                   requests, checks, scheduler_cooldown>>

(***************************************************************************)
(* services revision: the offline watchdog (src/src/services/scheduler.py  *)
(* runs AlertService.check_offline_status every 5 minutes).                *)
(***************************************************************************)
\* The background loops: "while running: try: <iteration>; sleep(...)
\* except Exception: log; sleep(<back-off>)".  Seconds.
SchedulerSleep == 1
SchedulerBackoff == 5
MonitoringBackoff == 60

\* The loop after an iteration that ended normally and slept.
Slept(seconds) == [running |-> TRUE, caught |-> FALSE, sleep |-> seconds]

\* Faulty variant: the exception leaves the loop, the thread ends.
Backoff_EndsLoop(seconds) == [running |-> FALSE, caught |-> TRUE, sleep |-> 0]

\* The loop after an exception reached its handler: logged, back-off sleep,
\* and the while statement is evaluated again.
Backoff(seconds) == [running |-> TRUE, caught |-> TRUE, sleep |-> seconds]

\* One record of the history variable checks.
\* latest: the timestamp of the latest sample read (None: no sample);
\* error: the run ended by an exception; alerts: the alert types it raised;
\* sent: those handed to the notification sink; loop: the loop as the
\* previous iteration left it.
Check(latest, error, alerts, sent) ==
    [time |-> now, latest |-> latest, error |-> error, alerts |-> alerts,
     sent |-> sent, settings |-> settings, alerts_before |-> MaxId(alert_logs),
     revision |-> revision, loop |-> loop]

LatestTimestamp(rows) ==
    IF LatestRow(rows) = None THEN None ELSE Some(LatestRow(rows)[1].timestamp)

\* AlertService.check_offline_status
check_offline_status(rows, S, logs, t, cd) ==
    IF ~PyTruthy(get_setting(S, "offline_alert_enabled", PyBool(TRUE)))
    THEN NoAlerts
    ELSE IF LatestRow(rows) = None
         THEN Gated(logs, t, cd, Alert("no_data", None, None, "error"))
    ELSE IF LatestRow(rows)[1].timestamp < t - OfflineMinutes
         THEN Gated(logs, t, cd, Alert("miner_offline", None, None, "error"))
    ELSE NoAlerts

\* One iteration of SchedulerService._run_scheduler whose run_pending runs
\* _check_miner_status.  The job catches and logs its exceptions (db_ok =
\* FALSE: the query of the latest sample fails), so none reaches the handler
\* of the loop, and the loop sleeps one second.
_check_miner_status(db_ok, result) ==
    /\ revision = "services"
    /\ loop.running
    /\ Len(checks) < limits.checks
    /\ LET ev == IF db_ok
                 THEN check_offline_status(miner_data, settings, alert_logs, now,
                                           scheduler_cooldown)
                 ELSE Raised
           st == SendAll([logs |-> alert_logs, notifs |-> notifications],
                         ev.alerts, settings, now, result, 0)
       IN /\ alert_logs' = st.logs
          /\ notifications' = st.notifs
          /\ checks' = Append(checks,
                 Check(LatestTimestamp(miner_data), ev.raised, Types(ev.alerts),
                       Types(SubSeq(st.notifs, Len(notifications) + 1,
                                    Len(st.notifs)))))
          /\ loop' = Slept(SchedulerSleep)
    /\ UNCHANGED <<revision, ingests, sched, dash, projection, difficulty, overview, cleanups, set_calls,
                   startups, limits, now, ticks, miner_data, settings, requests,
                   updates, scheduler_cooldown>>

\* The clock advances.
Tick(d) ==
    /\ ticks < limits.ticks
    /\ now' = now + d
    /\ ticks' = ticks + 1
    /\ UNCHANGED <<revision, ingests, sched, dash, projection, difficulty, overview, cleanups, set_calls,
                   startups, limits, loop, miner_data, settings, alert_logs, notifications,
                   requests, checks, updates, scheduler_cooldown>>

(***************************************************************************)
(* legacy revision: POST /api/input (src/src/web/api.py) and the offline   *)
(* check (src/src/service/check_online.py).  No alert log, no cooldown,    *)
(* hard-coded thresholds.                                                  *)
(***************************************************************************)
LegacyTempLimit == 65
LegacyVrTempLimit == 75

\* get_latest_data of src/src/db/database.py: ORDER BY id DESC LIMIT 1
get_latest_data(rows) ==
    IF rows = <<>> THEN None
    ELSE Some(CHOOSE r \in {rows[i] : i \in DOMAIN rows} : r.id = MaxId(rows))

\* The row of the INSERT: every field as posted (a missing field is NULL).
LegacyRow(d, id, t) ==
    [id |-> id, timestamp |-> t,
     power |-> d.power, temp |-> d.temp, vr_temp |-> d.vrTemp,
     hash_rate |-> d.hashRate,
     best_diff |-> d.bestDiff, best_session_diff |-> d.bestSessionDiff,
     shares_accepted |-> d.sharesAccepted, shares_rejected |-> d.sharesRejected,
     is_using_fallback_stratum |-> d.isUsingFallbackStratum]

\* Python's < on the difficulty strings of the model: lexicographic.
DiffStrings == <<"", "100", "200", "50.0M", "60.0M", "80.8M", "abc">>
StrRank(x) == CHOOSE i \in DOMAIN DiffStrings : DiffStrings[i] = x
StrLess(a, b) == StrRank(a) < StrRank(b)

\* Lines 19-31 of receive_data, executed before the INSERT: the difficulty
\* strings are compared as strings; comparing with None raises TypeError.
LegacyEarly(data, last_data) ==
    IF last_data = None THEN [raised |-> FALSE, types |-> <<>>]
    ELSE IF last_data[1].best_diff = None \/ data.bestDiff = None
         THEN [raised |-> TRUE, types |-> <<>>]
    ELSE IF StrLess(last_data[1].best_diff[1], data.bestDiff[1])
         THEN [raised |-> FALSE, types |-> <<"new_best_diff">>]
    ELSE IF last_data[1].best_session_diff = None \/ data.bestSessionDiff = None
         THEN [raised |-> TRUE, types |-> <<>>]
    ELSE IF StrLess(last_data[1].best_session_diff[1], data.bestSessionDiff[1])
         THEN [raised |-> FALSE, types |-> <<"new_session_best">>]
    ELSE [raised |-> FALSE, types |-> <<>>]

\* Lines 92-105 of receive_data, executed after the INSERT.
LegacyLate(data) ==
    (IF Truthy(data.temp) /\ data.temp[1] > LegacyTempLimit
     THEN <<"high_temp">> ELSE <<>>)
    \o (IF Truthy(data.vrTemp) /\ data.vrTemp[1] > LegacyVrTempLimit
        THEN <<"high_vr_temp">> ELSE <<>>)
    \o (IF data.isUsingFallbackStratum THEN <<"fallback_stratum">> ELSE <<>>)
    \o (IF Truthy(data.sharesRejected) /\ Truthy(data.sharesAccepted)
           \* (rejected / (rejected + accepted)) * 100 > 0.5
           /\ 200 * data.sharesRejected[1]
                > data.sharesRejected[1] + data.sharesAccepted[1]
        THEN <<"high_reject_rate">> ELSE <<>>)

\* send_telegram_notification for each message of a sequence.
RECURSIVE NotifyAll(_, _, _, _, _)
NotifyAll(notifs, types, t, result, src) ==
    IF types = <<>> THEN notifs
    ELSE NotifyAll(send_message(notifs, Head(types), t, result, src),
                   Tail(types), t, result, src)

receive_data(body, db_ok, result) ==
    /\ revision = "legacy"
    /\ Len(requests) < limits.requests
    /\ LET data == body.data
           last_data == get_latest_data(miner_data)
           row == LegacyRow(data, MaxId(miner_data) + 1, now)
           early == LegacyEarly(data, last_data)
           src == Len(requests) + 1
           prev == IF last_data = None THEN 0 ELSE last_data[1].id
       IN CASE body.kind # "object" ->
                 \* BadRequest from get_json, or "No data received"
                 Rejected(body, 400)
            [] body.kind = "object" /\ early.raised ->
                 Rejected(body, 500)
            [] body.kind = "object" /\ ~early.raised /\ ~db_ok ->
                 \* the INSERT fails after the difficulty rules were evaluated
                 \* (if there is a previous sample) and their messages sent
                 /\ notifications' =
                        NotifyAll(notifications, early.types, now, result, src)
                 /\ requests' = Append(requests,
                        Request(body, 500, 0, prev, last_data # None, FALSE, <<>>,
                                early.types, early.types, result))
                 /\ UNCHANGED <<miner_data, alert_logs>>
            [] OTHER ->
                 /\ miner_data' = Append(miner_data, row)
                 /\ notifications' =
                        NotifyAll(notifications, early.types \o LegacyLate(data),
                                  now, result, src)
                 /\ requests' = Append(requests,
                        Request(body, 200, row.id, prev, TRUE, FALSE, <<>>,
                                early.types \o LegacyLate(data), early.types,
                                result))
                 /\ UNCHANGED alert_logs
    /\ UNCHANGED <<revision, ingests, sched, dash, projection, difficulty, overview, cleanups, set_calls,
                   startups, limits, loop, now, ticks, settings, checks, updates,
                   scheduler_cooldown>>

\* timedelta.seconds: the seconds of the last, incomplete day (0..86399),
\* here for a difference of whole minutes.
TimedeltaSeconds(minutes) == (minutes % 1440) * 60

\* check_miner_status of src/src/service/check_online.py
check_miner_status(result) ==
    /\ revision = "legacy"
    /\ Len(checks) < limits.checks
    /\ LET last_data == get_latest_data(miner_data)
           types ==
               IF last_data = None THEN <<"no_data">>
               ELSE IF TimedeltaSeconds(now - last_data[1].timestamp) > 1800
                    THEN <<"miner_offline">>
               ELSE <<>>
       IN /\ notifications' = NotifyAll(notifications, types, now, result, 0)
          /\ checks' = Append(checks,
                 Check(IF last_data = None THEN None
                       ELSE Some(last_data[1].timestamp),
                       FALSE, types, types))
    /\ UNCHANGED <<revision, ingests, sched, dash, projection, difficulty, overview, cleanups, set_calls,
                   startups, limits, loop, now, ticks, miner_data, settings, alert_logs,
                   requests, updates, scheduler_cooldown>>

(***************************************************************************)
(* run revision (src/run.py): POST /api/data stores the sample; the        *)
(* monitoring loop checks the latest sample against the thresholds.        *)
(***************************************************************************)
RunTempHigh == 85
RunVrTempHigh == 75
RunHashrateLow == 400
RunHashrateHigh == 800
RunPowerHigh == 15
RunAlertInterval == 5

\* default_settings of create_app, inserted for the keys that have no row.
RunDefaults(k) ==
    CASE k = "temp_high_threshold" -> <<NumText(RunTempHigh)>>
      [] k = "vrtemp_high_threshold" -> <<NumText(RunVrTempHigh)>>
      [] k = "hashrate_low_threshold" -> <<NumText(RunHashrateLow)>>
      [] k = "hashrate_high_threshold" -> <<NumText(RunHashrateHigh)>>
      [] k = "power_high_threshold" -> <<NumText(RunPowerHigh)>>
      [] k = "alert_interval" -> <<NumText(RunAlertInterval)>>
      [] k \in {"telegram_token", "telegram_chat_id"} -> <<StrText("")>>
      [] OTHER -> <<>>

SeedDefaults(S) == [k \in SettingKeys |-> IF S[k] = <<>> THEN RunDefaults(k) ELSE S[k]]

\* receive_data of run.py: no alert evaluation; every exception (get_json
\* included) is answered 500 after a rollback.
receive_data_run(body, db_ok) ==
    /\ revision = "run"
    /\ Len(requests) < limits.requests
    /\ LET row == NewRow(body.data, MaxId(miner_data) + 1, now)
           last_data == LatestRow(miner_data)
       IN CASE body.kind = "malformed" -> Rejected(body, 500)
            [] body.kind = "empty" -> Rejected(body, 400)
            [] body.kind = "object" /\ ~db_ok -> StorageError(body)
            [] OTHER ->
                 /\ miner_data' = Append(miner_data, row)
                 /\ requests' = Append(requests,
                        Request(body, 200, row.id, 0, FALSE, FALSE, <<>>, <<>>,
                                <<>>, "ok"))
                 /\ UNCHANGED <<alert_logs, notifications>>
    /\ UNCHANGED <<revision, ingests, sched, dash, projection, difficulty, overview, cleanups, set_calls,
                   startups, limits, loop, now, ticks, settings, checks, updates,
                   scheduler_cooldown>>

\* float(setting_value if row else default): <<>> when it raises ValueError.
RunFloat(S, key, default) ==
    IF S[key] = <<>> THEN Some(default)
    ELSE IF S[key][1].num THEN Some(S[key][1].n)
    ELSE None

\* "if x and x > limit" / "if x and x < limit" of check_thresholds_global.
Above(x, limit, type) ==
    IF Truthy(x) /\ x[1] > limit THEN <<type>> ELSE <<>>
Below(x, limit, type) ==
    IF Truthy(x) /\ x[1] < limit THEN <<type>> ELSE <<>>

\* check_thresholds_global: the alerts of the latest sample; an exception
\* (a threshold that is no number) is caught and logged.
check_thresholds_global(rows, S) ==
    LET latest_data == LatestRow(rows)
        temp_high == RunFloat(S, "temp_high_threshold", RunTempHigh)
        vrtemp_high == RunFloat(S, "vrtemp_high_threshold", RunVrTempHigh)
        hashrate_low == RunFloat(S, "hashrate_low_threshold", RunHashrateLow)
        hashrate_high == RunFloat(S, "hashrate_high_threshold", RunHashrateHigh)
        power_high == RunFloat(S, "power_high_threshold", RunPowerHigh)
    IN IF latest_data = None THEN [error |-> FALSE, types |-> <<>>]
       ELSE IF None \in {temp_high, vrtemp_high, hashrate_low, hashrate_high,
                         power_high}
            THEN [error |-> TRUE, types |-> <<>>]
       ELSE [error |-> FALSE,
             types |-> Above(latest_data[1].temp, temp_high[1], "high_temp")
                   \o Above(latest_data[1].vr_temp, vrtemp_high[1], "high_vr_temp")
                   \o Below(latest_data[1].hash_rate, hashrate_low[1], "low_hash_rate")
                   \o Above(latest_data[1].hash_rate, hashrate_high[1], "high_hash_rate")
                   \o Above(latest_data[1].power, power_high[1], "high_power")]

\* send_telegram_alert_global: one message for all alerts of the run, sent
\* only if telegram_token and telegram_chat_id are stored and not empty.
RunCredentials(S) ==
    \A k \in {"telegram_token", "telegram_chat_id"} :
        S[k] # <<>> /\ (S[k][1].num \/ S[k][1].s # "")

\* int(setting_value if row else default): <<>> when it raises ValueError
\* (int("2.5"), int("abc")).
RunInt(S, key, default) ==
    IF S[key] = <<>> THEN Some(default)
    ELSE IF S[key][1].num THEN Some(S[key][1].n)
    ELSE None

\* The end of an iteration of monitoring_loop: alert_interval is read and
\* the loop sleeps alert_interval * 60 seconds; int() of a text that is no
\* integer, and time.sleep of a negative number, raise ValueError.
EndOfIteration(S) ==
    LET alert_interval == RunInt(S, "alert_interval", RunAlertInterval)
    IN IF alert_interval = None \/ alert_interval[1] < 0
       THEN Backoff(MonitoringBackoff)
       ELSE Slept(alert_interval[1] * 60)

\* One iteration of monitoring_loop.  The message of the run is recorded as
\* one notification per alert it lists.
monitoring_loop(result) ==
    /\ revision = "run"
    /\ loop.running
    /\ Len(checks) < limits.checks
    /\ LET ev == check_thresholds_global(miner_data, settings)
           sent == IF RunCredentials(settings) THEN ev.types ELSE <<>>
       IN /\ notifications' = NotifyAll(notifications, sent, now, result, 0)
          /\ checks' = Append(checks,
                 Check(LatestTimestamp(miner_data), ev.error, ev.types, sent))
          /\ loop' = EndOfIteration(settings)
    /\ UNCHANGED <<revision, ingests, sched, dash, projection, difficulty, overview, cleanups, set_calls,
                   startups, limits, now, ticks, miner_data, settings, alert_logs,
                   requests, updates, scheduler_cooldown>>

\* The settings forms offered to the model: temp_high, alert_interval and
\* the credentials.  An interval of 2.5 minutes is off the integer grid and is
\* carried by its text, which is what set_setting stores of it.
SettingsForms ==
    {[temp_high |-> 85, alert_interval |-> JNum(5),
      telegram_token |-> "token", telegram_chat_id |-> "chat"],
     [temp_high |-> -11, alert_interval |-> JNum(5),
      telegram_token |-> "token", telegram_chat_id |-> "chat"],
     [temp_high |-> 0, alert_interval |-> JNum(0),
      telegram_token |-> "", telegram_chat_id |-> ""]}

LoopForms ==
    {[temp_high |-> 85, alert_interval |-> JStr("2.5"),
      telegram_token |-> "token", telegram_chat_id |-> "chat"],
     [temp_high |-> 85, alert_interval |-> JNum(10),
      telegram_token |-> "", telegram_chat_id |-> ""]}

\* "value or default" of a form value: 0 and "" are falsy.
OrDefault(j, default) ==
    IF (j.t = "str" /\ j.s = "") \/ (j.t # "str" /\ j.n = 0)
    THEN JNum(default) ELSE j

\* handle_settings_actions (save): "Settings.set_setting(key, value or default)".
handle_settings_actions(form) ==
    /\ revision = "run"
    /\ updates < limits.updates
    /\ settings' =
         [settings EXCEPT
            !["temp_high_threshold"] =
                <<Str(JNum(IF form.temp_high # 0 THEN form.temp_high ELSE RunTempHigh))>>,
            !["alert_interval"] =
                <<Str(OrDefault(form.alert_interval, RunAlertInterval))>>,
            !["telegram_token"] = <<Str(JStr(form.telegram_token))>>,
            !["telegram_chat_id"] = <<Str(JStr(form.telegram_chat_id))>>]
    /\ updates' = updates + 1
    /\ UNCHANGED <<revision, ingests, sched, dash, projection, difficulty, overview, cleanups, set_calls,
                   startups, limits, loop, now, ticks, miner_data, alert_logs, notifications,
                   requests, checks, scheduler_cooldown>>

(***************************************************************************)
(* The difficulty strings of the dashboard (src/src/web/dash_app.py,       *)
(* update_performance_overview).  A string is a sequence of characters; a  *)
(* parsed number is n * 10^e, which keeps 80.8e12 inside the integers.     *)
(***************************************************************************)
DigitChars == <<"0", "1", "2", "3", "4", "5", "6", "7", "8", "9">>
IsDigit(c) == \E i \in DOMAIN DigitChars : DigitChars[i] = c
DigitValue(c) == (CHOOSE i \in DOMAIN DigitChars : DigitChars[i] = c) - 1

RECURSIVE DigitsValue(_)
DigitsValue(cs) ==
    IF cs = <<>> THEN 0
    ELSE 10 * DigitsValue(SubSeq(cs, 1, Len(cs) - 1)) + DigitValue(cs[Len(cs)])

NotPoint(c) == c # "."

\* float(text) for a text over digits, "." and letters: digits with at most
\* one point and at least one digit give n / 10^frac; everything else raises
\* ValueError (<<>>).
FloatChars(cs) ==
    LET points == {i \in DOMAIN cs : cs[i] = "."}
        digits == SelectSeq(cs, NotPoint)
    IN IF Cardinality(points) > 1 \/ digits = <<>>
          \/ (\E i \in DOMAIN digits : ~IsDigit(digits[i]))
       THEN None
       ELSE Some([n |-> DigitsValue(digits),
                  frac |-> IF points = {} THEN 0
                           ELSE Len(cs) - (CHOOSE i \in points : TRUE)])

\* The multipliers of the suffixes: 1000, 1000000, 1000000000, 10^12.
SuffixExp(c) ==
    CASE c = "k" -> 3 [] c = "M" -> 6 [] c = "G" -> 9 [] c = "T" -> 12
      [] OTHER -> 0

\* The outcomes of the conversion.
Parsed(n, e) == [kind |-> "value", n |-> n, e |-> e, error |-> ""]
Unparsable == [kind |-> "unparsable", n |-> -1, e |-> 0, error |-> ""]
Raises(error) == [kind |-> "raised", n |-> 0, e |-> 0, error |-> error]

\* Lines 411-422: "if s[-1] == 'k': s = float(s[:-1]) * 1000 elif ... else:
\* s = -1".  s[-1] of the empty string raises IndexError, float() of a
\* mantissa that is no number raises ValueError.
ParseDifficulty(cs) ==
    IF cs = <<>> THEN Raises("IndexError")
    ELSE LET mantissa == FloatChars(SubSeq(cs, 1, Len(cs) - 1))
         IN IF SuffixExp(cs[Len(cs)]) = 0 THEN Unparsable
            ELSE IF mantissa = None THEN Raises("ValueError")
            ELSE Parsed(mantissa[1].n,
                        SuffixExp(cs[Len(cs)]) - mantissa[1].frac)

\* The characters of the difficulty strings that samples carry.
Chars(x) ==
    CASE x = "" -> <<>>
      [] x = "100" -> <<"1", "0", "0">>
      [] x = "200" -> <<"2", "0", "0">>
      [] x = "50.0M" -> <<"5", "0", ".", "0", "M">>
      [] x = "60.0M" -> <<"6", "0", ".", "0", "M">>
      [] x = "80.8M" -> <<"8", "0", ".", "8", "M">>
      [] x = "abc" -> <<"a", "b", "c">>

RECURSIVE Pow10(_)
Pow10(k) == IF k = 0 THEN 1 ELSE 10 * Pow10(k - 1)

\* The number a parsed result stands for (for results below 2^31).
Magnitude(r) == r.n * Pow10(r.e)

(***************************************************************************)
(* The state machine.                                                      *)
(***************************************************************************)
NoSettings == [k \in SettingKeys |-> <<>>]

\* No difficulty string was handed to the parser.
NotAsked == [input |-> <<>>, result |-> None]

\* No mean hash rate and difficulty were handed to the projection.
NotProjected == [hash |-> 0, diff |-> <<>>, result |-> None]

\* The threads that may call Settings.set_setting at the same time.
MaxCallers == 2
Callers == 1..MaxCallers

(***************************************************************************)
(* The scheduler service (src/src/services/scheduler.py): the module       *)
(* global _scheduler, the SchedulerService objects, their threads, and the *)
(* job list of the module-global "schedule", which every thread's          *)
(* run_pending works through.                                              *)
(***************************************************************************)
Tasks ==
    <<"_check_miner_status", "_cleanup_old_data", "_cleanup_old_alerts",
      "_send_daily_summary">>

\* every(5).minutes, every(1).hours, every(1).hours, every(24).hours
PeriodMinutes(task) ==
    CASE task = "_check_miner_status" -> 5
      [] task = "_cleanup_old_data" -> 60
      [] task = "_cleanup_old_alerts" -> 60
      [] task = "_send_daily_summary" -> 1440

\* The module after import: _scheduler = None (0), no job registered.
NoScheduler ==
    [scheduler |-> 0, services |-> <<>>, threads |-> <<>>, jobs |-> <<>>,
     runs |-> <<>>, calls |-> 0]

\* SchedulerService.start of object i at time t.
Start(s, i, t) ==
    IF s.services[i].running THEN s
    ELSE [s EXCEPT
            !.jobs = @ \o [k \in DOMAIN Tasks |->
                             [task |-> Tasks[k], owner |-> i,
                              next_run |-> t + PeriodMinutes(Tasks[k])]],
            !.services[i] = [running |-> TRUE, thread |-> Len(s.threads) + 1],
            !.threads = Append(@, [owner |-> i, alive |-> TRUE])]

\* SchedulerService.stop of object i.  joined: the thread saw running = False
\* and returned within the five seconds of join(timeout=5); otherwise (a job
\* or the sleep(5) after an exception takes longer) the join times out and
\* the thread lives on.  The jobs stay registered.
Stop(s, i, joined) ==
    [s EXCEPT
       !.services[i].running = FALSE,
       !.threads = [k \in DOMAIN s.threads |->
                      IF k = s.services[i].thread /\ joined
                      THEN [s.threads[k] EXCEPT !.alive = FALSE]
                      ELSE s.threads[k]]]

\* start_scheduler()
StartScheduler(s, t) ==
    IF s.scheduler = 0
    THEN Start([s EXCEPT !.scheduler = Len(s.services) + 1,
                         !.services = Append(@, [running |-> FALSE,
                                                 thread |-> 0])],
               Len(s.services) + 1, t)
    ELSE Start(s, s.scheduler, t)

\* stop_scheduler()
StopScheduler(s, joined) ==
    IF s.scheduler = 0 THEN s
    ELSE [Stop(s, s.scheduler, joined) EXCEPT !.scheduler = 0]

\* The dashboard of the legacy revision (src/src/web/dash_app.py): the
\* module global LAST_DATA_SAVE of the server process, and per browser the
\* dcc.Store 'last-data-recieved-time'.  seen (the newest sample id at the
\* client's previous poll, 0 for none) and polls are history.
Clients == {"A", "B"}
NoClients ==
    [LAST_DATA_SAVE |-> None, stored |-> [c \in Clients |-> None],
     seen |-> [c \in Clients |-> None], polls |-> <<>>]

\* No call of set_setting is in progress and none has completed.
Idle == [pc |-> "idle", key |-> "", value |-> JNum(0), found |-> FALSE]
NoCalls == [procs |-> [p \in Callers |-> Idle], done |-> <<>>]

\* A request thread that handles no request.
IdleThread ==
    [pc |-> "idle", row |-> NewRow(BasePayload, 0, 0), prev |-> None,
     cd |-> PyFloat(0), first |-> NoAlerts, rows_before |-> 0]
NoIngests == [p \in Callers |-> IdleThread]

\* The state after construction of the deployed revision (all variables but
\* revision, limits, difficulty and projection).
Fresh ==
    /\ now = 0
    /\ ticks = 0
    /\ miner_data = <<>>
    /\ settings = IF revision = "run" THEN SeedDefaults(NoSettings) ELSE NoSettings
    /\ alert_logs = <<>>
    /\ notifications = <<>>
    /\ requests = <<>>
    /\ checks = <<>>
    /\ updates = 0
    \* AlertService.__init__ of the scheduler's service reads the setting once
    /\ scheduler_cooldown =
         get_setting(NoSettings, "alert_cooldown_minutes",
                     PyFloat(DefaultCooldownMinutes))
    \* the loop thread is started with the application
    /\ loop = Slept(0)
    /\ overview = <<>>
    /\ cleanups = <<>>
    /\ set_calls = NoCalls
    /\ startups = <<>>
    /\ ingests = NoIngests
    \* create_app ends with start_scheduler()
    /\ sched = IF revision = "services" THEN StartScheduler(NoScheduler, 0)
               ELSE NoScheduler
    /\ dash = NoClients

Init ==
    /\ revision \in Revisions
    /\ Fresh
    /\ difficulty = NotAsked
    /\ projection = NotProjected
    /\ limits = [requests |-> CASE revision = "services" -> MaxRequests
                                [] revision = "legacy" -> MaxLegacyRequests
                                [] OTHER -> MaxRunRequests,
                 checks |-> MaxChecks, updates |-> MaxUpdates,
                 ticks |-> MaxTicks]

Next ==
    \/ \E body \in Bodies(ServicePayloads), db_ok \in BOOLEAN,
          result \in SendResults :
          receive_miner_data(body, db_ok, result)
    \/ \E body \in SettingsBodies : update_settings(body)
    \/ \E result \in SendResults : _check_miner_status(TRUE, result)
    \/ \E body \in Bodies(LegacyPayloads), db_ok \in BOOLEAN,
          result \in SendResults :
          receive_data(body, db_ok, result)
    \/ \E result \in SendResults : check_miner_status(result)
    \/ \E body \in Bodies(RunPayloads), db_ok \in BOOLEAN : receive_data_run(body, db_ok)
    \/ \E result \in SendResults : monitoring_loop(result)
    \/ \E form \in SettingsForms : handle_settings_actions(form)
    \/ \E d \in TickSteps : Tick(d)

Spec == Init /\ [][Next]_vars

(***************************************************************************)
(* The background loops over several iterations: the scheduler thread of   *)
(* the services revision and the monitoring thread of run.py, with the     *)
(* query of the watchdog failing or not and an alert_interval that int()   *)
(* rejects.                                                                *)
(***************************************************************************)
MaxLoopRequests == 1
MaxLoopChecks == 3

LoopPayloads == {[BasePayload EXCEPT !.temp = Some(90)]}

LoopInit ==
    /\ revision \in {"services", "run"}
    /\ Fresh
    /\ difficulty = NotAsked
    /\ projection = NotProjected
    /\ limits = [requests |-> MaxLoopRequests, checks |-> MaxLoopChecks,
                 updates |-> MaxUpdates, ticks |-> MaxTicks]

LoopNext ==
    \/ \E body \in Bodies(LoopPayloads), result \in SendResults :
          receive_miner_data(body, TRUE, result)
    \/ \E body \in SettingsBodies : update_settings(body)
    \/ \E db_ok \in BOOLEAN, result \in SendResults :
          _check_miner_status(db_ok, result)
    \/ \E body \in Bodies(LoopPayloads) : receive_data_run(body, TRUE)
    \/ \E result \in SendResults : monitoring_loop(result)
    \/ \E form \in LoopForms : handle_settings_actions(form)
    \/ \E d \in TickSteps : Tick(d)

LoopSpec == LoopInit /\ [][LoopNext]_vars

(***************************************************************************)
(* Alert evaluation with a stored threshold that is no number and with a   *)
(* best difficulty that rises from one sample to the next.                 *)
(***************************************************************************)
MaxEvalRequests == 2

EvalPayloads ==
    {BasePayload,
     [BasePayload EXCEPT !.temp = Some(70)],
     [BasePayload EXCEPT !.bestDiff = Some("60.0M")],
     [BasePayload EXCEPT !.bestDiff = Some("60.0M"),
                         !.bestSessionDiff = Some("60.0M"),
                         !.isUsingFallbackStratum = TRUE]}

EvalBodies ==
    {[k \in {"temp_limit"} |-> JStr("abc")],
     [k \in {"telegram_enabled"} |-> JBool(TRUE)]}

EvalInit ==
    /\ revision \in {"services", "legacy"}
    /\ Fresh
    /\ difficulty = NotAsked
    /\ projection = NotProjected
    /\ limits = [requests |-> MaxEvalRequests, checks |-> MaxChecks,
                 updates |-> MaxUpdates, ticks |-> MaxTicks]

EvalNext ==
    \/ \E body \in Bodies(EvalPayloads), db_ok \in BOOLEAN,
          result \in SendResults :
          receive_miner_data(body, db_ok, result)
    \/ \E body \in EvalBodies : update_settings(body)
    \/ \E body \in Bodies(EvalPayloads), db_ok \in BOOLEAN,
          result \in SendResults :
          receive_data(body, db_ok, result)
    \/ \E result \in SendResults : _check_miner_status(TRUE, result)
    \/ \E d \in TickSteps : Tick(d)

EvalSpec == EvalInit /\ [][EvalNext]_vars

(***************************************************************************)
(* The conversion of best_session_diff on its own: every string of up to   *)
(* MaxLen characters over a small alphabet, and "80.8M".                   *)
(***************************************************************************)
MaxLen == 3

DifficultyAlphabet == {"8", "0", ".", "k", "M", "G", "T", "x"}

DifficultyInputs ==
    UNION {[1..n -> DifficultyAlphabet] : n \in 0..MaxLen}
        \cup {Chars("80.8M"), Chars("50.0M")}

\* Lines 410-422 of update_performance_overview applied to the string.
ConvertBestSessionDiff ==
    /\ difficulty.result = None
    /\ difficulty' =
         [difficulty EXCEPT !.result = Some(ParseDifficulty(difficulty.input))]
    /\ UNCHANGED <<revision, ingests, sched, dash, projection, now, ticks, miner_data, settings, alert_logs,
                   notifications, requests, checks, updates, scheduler_cooldown,
                   limits, loop, overview, cleanups, set_calls, startups>>

DifficultyInit ==
    /\ revision = "legacy"
    /\ Fresh
    /\ limits = [requests |-> 0, checks |-> 0, updates |-> 0, ticks |-> 0]
    /\ difficulty \in [input : DifficultyInputs, result : {None}]
    /\ projection = NotProjected

DifficultyNext == ConvertBestSessionDiff

DifficultySpec == DifficultyInit /\ [][DifficultyNext]_vars

(***************************************************************************)
(* A change of alert_cooldown_minutes between runs of the watchdog: with   *)
(* no sample stored the watchdog raises no_data, the cooldown is set to 1  *)
(* or to 60 minutes, the clock advances and the watchdog runs again.       *)
(***************************************************************************)
MaxCooldownRequests == 1
MaxCooldownChecks == 2
MaxCooldownTicks == 2

CooldownTickSteps == {2, 31}

CooldownBodies ==
    {[k \in {"alert_cooldown_minutes"} |-> JNum(1)],
     [k \in {"alert_cooldown_minutes"} |-> JNum(60)]}

CooldownInit ==
    /\ revision = "services"
    /\ Fresh
    /\ difficulty = NotAsked
    /\ projection = NotProjected
    /\ limits = [requests |-> MaxCooldownRequests, checks |-> MaxCooldownChecks,
                 updates |-> MaxUpdates, ticks |-> MaxCooldownTicks]

CooldownNext ==
    \/ \E result \in SendResults :
          receive_miner_data([kind |-> "object", data |-> BasePayload], TRUE,
                             result)
    \/ \E body \in CooldownBodies : update_settings(body)
    \/ \E result \in SendResults : _check_miner_status(TRUE, result)
    \/ \E d \in CooldownTickSteps : Tick(d)

CooldownSpec == CooldownInit /\ [][CooldownNext]_vars

(***************************************************************************)
(* Calls of start_scheduler / stop_scheduler and of stop of the current    *)
(* SchedulerService, interleaved with the scheduler threads and            *)
(* the clock.  The bodies of the jobs are the actions _check_miner_status, *)
(* _cleanup_old_data and _cleanup_old_alerts above; here a run of a job is *)
(* recorded in sched.runs.                                                 *)
(***************************************************************************)
MaxSchedCalls == 3
MaxSchedTicks == 2

SchedTickSteps == {5, 60}

SchedUnchanged ==
    UNCHANGED <<revision, ingests, dash, projection, difficulty, now, ticks,
                miner_data, settings, alert_logs, notifications, requests,
                checks, updates, scheduler_cooldown, limits, loop, overview,
                cleanups, set_calls, startups>>

Called(s) == [s EXCEPT !.calls = @ + 1]

\* start_scheduler(); with an object in _scheduler it is _scheduler.start().
start_scheduler ==
    /\ revision = "services"
    /\ sched.calls < limits.updates
    /\ sched' = Called(StartScheduler(sched, now))
    /\ SchedUnchanged

stop_scheduler(joined) ==
    /\ revision = "services"
    /\ sched.calls < limits.updates
    /\ sched' = Called(StopScheduler(sched, joined))
    /\ SchedUnchanged

\* _scheduler.stop() on the current object
SchedulerService_stop(joined) ==
    /\ revision = "services"
    /\ sched.calls < limits.updates
    /\ sched.scheduler # 0
    /\ sched' = Called(Stop(sched, sched.scheduler, joined))
    /\ SchedUnchanged

\* schedule.run_pending() of thread th at time t: every registered job that
\* is due runs, in the order of registration, and is scheduled again.
run_pending(s, th, t) ==
    LET due == {j \in DOMAIN s.jobs : s.jobs[j].next_run <= t}
    IN [s EXCEPT
          !.runs = @ \o [k \in 1..Cardinality(due) |->
                           LET j == CHOOSE j \in due :
                                      Cardinality({x \in due : x < j}) = k - 1
                           IN [task |-> s.jobs[j].task, time |-> t,
                               thread |-> th]],
          !.jobs = [j \in DOMAIN s.jobs |->
                      IF j \in due
                      THEN [s.jobs[j] EXCEPT
                              !.next_run = t + PeriodMinutes(s.jobs[j].task)]
                      ELSE s.jobs[j]]]

\* One test of "while self.running" by thread th, and the body of the loop
\* when it holds.
_run_scheduler(th) ==
    /\ revision = "services"
    /\ th \in DOMAIN sched.threads
    /\ sched.threads[th].alive
    /\ sched' = IF sched.services[sched.threads[th].owner].running
                THEN run_pending(sched, th, now)
                ELSE [sched EXCEPT !.threads[th].alive = FALSE]
    /\ SchedUnchanged

SchedInit ==
    /\ revision = "services"
    /\ Fresh
    /\ difficulty = NotAsked
    /\ projection = NotProjected
    /\ limits = [requests |-> 0, checks |-> 0, updates |-> MaxSchedCalls,
                 ticks |-> MaxSchedTicks]

SchedNext ==
    \/ start_scheduler
    \/ \E joined \in BOOLEAN : stop_scheduler(joined)
    \/ \E joined \in BOOLEAN : SchedulerService_stop(joined)
    \/ \E th \in 1..(MaxSchedCalls + 1) : _run_scheduler(th)
    \/ \E d \in SchedTickSteps : Tick(d)

SchedSpec == SchedInit /\ [][SchedNext]_vars

(***************************************************************************)
(* Several browsers poll the last-data-received callback of one legacy     *)
(* server process while POST /api/input stores samples.                    *)
(***************************************************************************)
MaxClientRequests == 2
MaxPolls == 4
MaxClientTicks == 2

ClientTickSteps == {1}

\* update_last_data_recieved_time(n, stored_time) called by client c: the
\* value returned to the client's store and the new LAST_DATA_SAVE.
LastDataRecieved(d, c, rows, t) ==
    LET last_data == get_latest_data(rows)
        stored_time == d.stored[c]
        kept == IF stored_time # None THEN stored_time ELSE Some(t)
    IN IF last_data = None
       THEN [time |-> kept, save |-> d.LAST_DATA_SAVE]
       ELSE IF d.LAST_DATA_SAVE = None
               \/ last_data[1].id # d.LAST_DATA_SAVE[1]
            THEN [time |-> Some(t), save |-> Some(last_data[1].id)]
       ELSE [time |-> kept, save |-> d.LAST_DATA_SAVE]

update_last_data_recieved_time(c) ==
    /\ revision = "legacy"
    /\ Len(dash.polls) < limits.checks
    /\ LET out == LastDataRecieved(dash, c, miner_data, now)
       IN dash' =
            [LAST_DATA_SAVE |-> out.save,
             stored |-> [dash.stored EXCEPT ![c] = out.time],
             seen |-> [dash.seen EXCEPT ![c] = Some(MaxId(miner_data))],
             polls |-> Append(dash.polls,
                         [client |-> c, time |-> now,
                          latest |-> MaxId(miner_data),
                          seen |-> dash.seen[c],
                          before |-> dash.stored[c], after |-> out.time])]
    /\ UNCHANGED <<revision, ingests, sched, projection, difficulty, now,
                   ticks, miner_data, settings, alert_logs, notifications,
                   requests, checks, updates, scheduler_cooldown, limits, loop,
                   overview, cleanups, set_calls, startups>>

ClientInit ==
    /\ revision = "legacy"
    /\ Fresh
    /\ difficulty = NotAsked
    /\ projection = NotProjected
    /\ limits = [requests |-> MaxClientRequests, checks |-> MaxPolls,
                 updates |-> 0, ticks |-> MaxClientTicks]

ClientNext ==
    \/ \E result \in SendResults :
          receive_data([kind |-> "object", data |-> BasePayload], TRUE, result)
    \/ \E c \in Clients : update_last_data_recieved_time(c)
    \/ \E d \in ClientTickSteps : Tick(d)

ClientSpec == ClientInit /\ [][ClientNext]_vars

(***************************************************************************)
(* The chances of the difficulty projection (update_performance_overview,  *)
(* lines 444-463) as a function of the mean hash rate of the window (in    *)
(* GH/s) and of the best_session_diff string.  The numbers exceed 2^31, so *)
(* a natural number is a sequence of limbs below 10000, least significant  *)
(* first, and a chance is the exact fraction num / den; the floats of the  *)
(* code round these fractions to 53 bits.                                  *)
(***************************************************************************)
\* x * m + carry, for a factor m up to 10^5.
RECURSIVE Times(_, _, _)
Times(x, m, carry) ==
    IF x = <<>>
    THEN IF carry = 0 THEN <<>>
         ELSE <<carry % 10000>> \o Times(<<>>, m, carry \div 10000)
    ELSE <<(Head(x) * m + carry) % 10000>>
             \o Times(Tail(x), m, (Head(x) * m + carry) \div 10000)

\* Without the leading zero limbs.
RECURSIVE Normal(_)
Normal(x) ==
    IF x # <<>> /\ x[Len(x)] = 0 THEN Normal(SubSeq(x, 1, Len(x) - 1)) ELSE x

\* The limbs of an integer below 2^31.
Big(n) == Normal(Times(<<>>, 1, n))

Mul(x, m) == Normal(Times(x, m, 0))

RECURSIVE MulPow10(_, _)
MulPow10(x, k) == IF k <= 0 THEN x ELSE MulPow10(Mul(x, 10), k - 1)

\* x < y for normal x and y.
RECURSIVE Less(_, _)
Less(x, y) ==
    IF Len(x) # Len(y) THEN Len(x) < Len(y)
    ELSE IF x = <<>> THEN FALSE
    ELSE IF x[Len(x)] # y[Len(y)] THEN x[Len(x)] < y[Len(y)]
    ELSE Less(SubSeq(x, 1, Len(x) - 1), SubSeq(y, 1, Len(y) - 1))

\* c > p / q and c * m, for a chance c and integers p, q, m up to 10^5.
Exceeds(c, p, q) == Less(Mul(c.den, p), Mul(c.num, q))
Scaled(c, m) == [c EXCEPT !.num = Mul(c.num, m)]

\* Line 445 (constant = 4294967296 = 65536 * 65536) and line 449:
\* H / (best_session_diff * constant), H = hash * 1e9 and best_session_diff =
\* parsed.n * 10^parsed.e.
chance_per_second(hash, parsed) ==
    [num |-> MulPow10(Big(hash), 9 - (IF parsed.e < 0 THEN parsed.e ELSE 0)),
     den |-> Mul(Mul(MulPow10(Big(parsed.n), parsed.e), 65536), 65536)]

\* Lines 452-454.
chance_per_day(hash, parsed) == Scaled(chance_per_second(hash, parsed), 86400)
chance_per_month(hash, parsed) == Scaled(chance_per_day(hash, parsed), 30)
chance_per_year(hash, parsed) == Scaled(chance_per_day(hash, parsed), 365)

\* Lines 456-461: "if chance_per_day > 0.99999: chance_per_day = 0.9999",
\* "if chance_per_month > 1: chance_per_month = 0.9999", the same per year.
Capped == [num |-> Big(9999), den |-> Big(10000)]
Clamp(c, p, q) == IF Exceeds(c, p, q) THEN Capped ELSE c

\* Lines 447-448 and 452-461: the three chances handed to the formatting, or
\* "Invalid best session difficulty.".
Chances(hash, cs) ==
    LET parsed == ParseDifficulty(cs)
    IN IF parsed.kind # "value" \/ parsed.n <= 0
       THEN [kind |-> "invalid", day |-> Capped, month |-> Capped,
             year |-> Capped]
       ELSE [kind |-> "chances",
             day |-> Clamp(chance_per_day(hash, parsed), 99999, 100000),
             month |-> Clamp(chance_per_month(hash, parsed), 1, 1),
             year |-> Clamp(chance_per_year(hash, parsed), 1, 1)]

\* Mean hash rates in GH/s.
HashRates == {0, 1, 400, 500, 1000, 1200}

\* Strings of bestSessionDiff, from "20.117k" to "3.671G", and two that
\* stand for no positive difficulty.
ChanceDifficulties ==
    {<<"2", "0", ".", "1", "1", "7", "k">>,
     <<"6", "0", "3", ".", "5", "k">>,
     <<"9", ".", "0", "5", "M">>,
     <<"1", "0", ".", "0", "5", "8", "4", "M">>,
     <<"8", "0", ".", "8", "M">>,
     <<"2", "4", "1", ".", "4", "M">>,
     <<"3", "0", "1", ".", "7", "5", "M">>,
     <<"6", "0", "3", ".", "5", "M">>,
     <<"3", ".", "6", "7", "1", "G">>,
     <<"1", "0", "0", "T">>,
     <<"0", "k">>,
     <<"1", "0", "0">>}

\* Lines 444-463 of update_performance_overview applied to the inputs.
ProjectChances ==
    /\ projection.result = None
    /\ projection' =
         [projection EXCEPT
            !.result = Some(Chances(projection.hash, projection.diff))]
    /\ UNCHANGED <<revision, ingests, sched, dash, difficulty, now, ticks,
                   miner_data, settings, alert_logs, notifications, requests,
                   checks, updates, scheduler_cooldown, limits, loop,
                   overview, cleanups, set_calls, startups>>

ChanceInit ==
    /\ revision = "legacy"
    /\ Fresh
    /\ limits = [requests |-> 0, checks |-> 0, updates |-> 0, ticks |-> 0]
    /\ difficulty = NotAsked
    /\ projection \in [hash : HashRates, diff : ChanceDifficulties,
                       result : {None}]

ChanceNext == ProjectChances

ChanceSpec == ChanceInit /\ [][ChanceNext]_vars

(***************************************************************************)
(* The difficulty projection of the legacy dashboard                       *)
(* (update_performance_overview), run on the samples that POST /api/input  *)
(* stored.                                                                 *)
(***************************************************************************)
MaxDashRequests == 2
MaxOverviews == 2

\* The dropdown values used: 1 hour and 6 hours.
Timeframes == {1, 6}
DashTickSteps == {31, 1440}

\* Samples with a parsable, an empty and a suffix-free bestSessionDiff, and
\* one without hashRate.
DashPayloads ==
    {BasePayload,
     [BasePayload EXCEPT !.bestSessionDiff = Some("")],
     [BasePayload EXCEPT !.bestSessionDiff = Some("abc")],
     [BasePayload EXCEPT !.hashRate = None]}

\* get_historical_data(minutes): the rows of the last minutes, oldest first.
get_historical_data(rows, t, minutes) ==
    SelectSeq(rows, LAMBDA r : r.timestamp >= t - minutes)

\* The outcomes of the callback: a text, the projection, or an exception.
Returned(text) == [result |-> text, error |-> ""]
Raised500(error) == [result |-> "raised", error |-> error]

\* update_performance_overview, in the order of its statements.  The
\* window is timeframe * 60 minutes.
Projection(rows, t, timeframe) ==
    LET data_array == get_historical_data(rows, t, timeframe * 60)
    IN IF data_array = <<>> THEN Returned("No data available.")
       ELSE LET best_session_diff == data_array[Len(data_array)].best_session_diff
            IN IF best_session_diff = None THEN Raised500("TypeError")
               ELSE LET parsed == ParseDifficulty(Chars(best_session_diff[1]))
                        first_diff_record ==
                            SelectSeq(rows, LAMBDA r :
                                r.best_session_diff = best_session_diff)
                    IN IF parsed.kind = "raised" THEN Raised500(parsed.error)
                       ELSE IF first_diff_record = <<>>
                            THEN Returned("No record found for bestSessionDiff.")
                       ELSE IF \E i \in DOMAIN data_array :
                                   data_array[i].hash_rate = None
                            THEN Raised500("TypeError")
                       ELSE IF parsed.kind = "unparsable" \/ parsed.n <= 0
                            THEN Returned("Invalid best session difficulty.")
                       ELSE Returned("projection")

\* One run of the callback; the dropdown gives the timeframe.
update_performance_overview(timeframe) ==
    /\ revision = "legacy"
    /\ Len(overview) < limits.checks
    /\ LET data_array == get_historical_data(miner_data, now, timeframe * 60)
       IN overview' = Append(overview,
              [time |-> now, window |-> Len(data_array),
               latest |-> IF data_array = <<>> THEN None
                          ELSE data_array[Len(data_array)].best_session_diff,
               outcome |-> Projection(miner_data, now, timeframe)])
    /\ UNCHANGED <<revision, ingests, sched, dash, projection, now, ticks, miner_data, settings, alert_logs,
                   notifications, requests, checks, updates, scheduler_cooldown,
                   limits, loop, difficulty, cleanups, set_calls, startups>>

DashInit ==
    /\ revision = "legacy"
    /\ Fresh
    /\ difficulty = NotAsked
    /\ projection = NotProjected
    /\ limits = [requests |-> MaxDashRequests, checks |-> MaxOverviews,
                 updates |-> 0, ticks |-> MaxTicks]

DashNext ==
    \/ \E body \in Bodies(DashPayloads), result \in SendResults :
          receive_data(body, TRUE, result)
    \/ \E timeframe \in Timeframes : update_performance_overview(timeframe)
    \/ \E d \in DashTickSteps : Tick(d)

DashSpec == DashInit /\ [][DashNext]_vars

(***************************************************************************)
(* The cleanup jobs of the scheduler (services revision): samples are kept *)
(* 30 days, alert log entries 7 days.                                      *)
(***************************************************************************)
DataRetentionMinutes == 43200
AlertRetentionMinutes == 10080

MaxCleanupRequests == 2
MaxCleanups == 3
MaxCleanupTicks == 2

\* Clock advances of 7 days, 7 days and a minute, and 30 days.
CleanupTickSteps == {10080, 10081, 43200}

\* Faulty variant: the row written exactly at the cutoff is deleted too.
Retained_InclusiveCutoff(rows, cutoff) ==
    SelectSeq(rows, LAMBDA r : r.timestamp > cutoff)

\* The rows left by "query.filter(timestamp < cutoff_date).delete()".
Retained(rows, cutoff) ==
    SelectSeq(rows, LAMBDA r : ~(r.timestamp < cutoff))

\* One record of the history variable cleanups.
Cleanup(job, cutoff, error, data_after, alerts_after) ==
    [job |-> job, time |-> now, cutoff |-> cutoff, error |-> error,
     data_before |-> miner_data, data_after |-> data_after,
     alerts_before |-> alert_logs, alerts_after |-> alerts_after]

\* SchedulerService._cleanup_old_data, run by an iteration of the scheduler
\* loop; db_ok = FALSE: the DELETE or the commit fails, the job logs the
\* error and rolls back.
_cleanup_old_data(db_ok) ==
    /\ revision = "services"
    /\ loop.running
    /\ Len(cleanups) < limits.checks
    /\ LET cutoff_date == now - DataRetentionMinutes
           kept == IF db_ok THEN Retained(miner_data, cutoff_date) ELSE miner_data
       IN /\ miner_data' = kept
          /\ cleanups' = Append(cleanups,
                 Cleanup("data", cutoff_date, ~db_ok, kept, alert_logs))
    /\ loop' = Slept(SchedulerSleep)
    /\ UNCHANGED <<revision, ingests, sched, dash, projection, now, ticks, settings, alert_logs, notifications,
                   requests, checks, updates, scheduler_cooldown, limits,
                   difficulty, overview, set_calls, startups>>

\* SchedulerService._cleanup_old_alerts.
_cleanup_old_alerts(db_ok) ==
    /\ revision = "services"
    /\ loop.running
    /\ Len(cleanups) < limits.checks
    /\ LET cutoff_date == now - AlertRetentionMinutes
           kept == IF db_ok THEN Retained(alert_logs, cutoff_date) ELSE alert_logs
       IN /\ alert_logs' = kept
          /\ cleanups' = Append(cleanups,
                 Cleanup("alerts", cutoff_date, ~db_ok, miner_data, kept))
    /\ loop' = Slept(SchedulerSleep)
    /\ UNCHANGED <<revision, ingests, sched, dash, projection, now, ticks, settings, miner_data, notifications,
                   requests, checks, updates, scheduler_cooldown, limits,
                   difficulty, overview, set_calls, startups>>

CleanupPayloads == {[BasePayload EXCEPT !.temp = Some(70)]}

CleanupInit ==
    /\ revision = "services"
    /\ Fresh
    /\ difficulty = NotAsked
    /\ projection = NotProjected
    /\ limits = [requests |-> MaxCleanupRequests, checks |-> MaxCleanups,
                 updates |-> 0, ticks |-> MaxCleanupTicks]

CleanupNext ==
    \/ \E body \in [kind : {"object"}, data : CleanupPayloads] :
          receive_miner_data(body, TRUE, "ok")
    \/ \E db_ok \in BOOLEAN : _cleanup_old_data(db_ok)
    \/ \E db_ok \in BOOLEAN : _cleanup_old_alerts(db_ok)
    \/ \E d \in CleanupTickSteps : Tick(d)

CleanupSpec == CleanupInit /\ [][CleanupNext]_vars

(***************************************************************************)
(* Settings.set_setting called from several request threads.  A call is    *)
(* two steps: the SELECT of the row of the key, then the UPDATE of the row *)
(* found or the INSERT of a new one, with the commit.  The column key is   *)
(* unique: the commit of an INSERT for a key that has a row by then fails  *)
(* with IntegrityError, which set_setting does not catch.                  *)
(***************************************************************************)
MaxSetCalls == 3

\* The key the callers write, and the values.
SetKey == IF revision = "run" THEN "temp_high_threshold" ELSE "temp_limit"
SetValues == {JNum(70), JNum(80)}

\* "setting = Settings.query.filter_by(key=key).first()"
set_setting_query(p, key, value) ==
    /\ revision \in {"services", "run"}
    /\ set_calls.procs[p].pc = "idle"
    /\ Len(set_calls.done)
         + Cardinality({q \in Callers : set_calls.procs[q].pc # "idle"})
           < MaxSetCalls
    /\ set_calls' = [set_calls EXCEPT !.procs[p] =
           [pc |-> "queried", key |-> key, value |-> value,
            found |-> settings[key] # <<>>]]
    /\ UNCHANGED <<revision, ingests, sched, dash, projection, now, ticks, miner_data, settings, alert_logs,
                   notifications, requests, checks, updates, scheduler_cooldown,
                   limits, loop, difficulty, overview, cleanups, startups>>

\* "if setting: setting.value = str(value) else: db.session.add(Settings(...))"
\* and "db.session.commit()".
set_setting_commit(p) ==
    /\ set_calls.procs[p].pc = "queried"
    /\ LET call == set_calls.procs[p]
           IntegrityError == ~call.found /\ settings[call.key] # <<>>
       IN /\ settings' = IF IntegrityError THEN settings
                         ELSE [settings EXCEPT ![call.key] = <<Str(call.value)>>]
          /\ set_calls' = [procs |-> [set_calls.procs EXCEPT ![p] = Idle],
                           done |-> Append(set_calls.done,
                                       [caller |-> p, key |-> call.key,
                                        value |-> call.value,
                                        error |-> IntegrityError])]
    /\ UNCHANGED <<revision, ingests, sched, dash, projection, now, ticks, miner_data, alert_logs,
                   notifications, requests, checks, updates, scheduler_cooldown,
                   limits, loop, difficulty, overview, cleanups, startups>>

SetInit ==
    /\ revision \in {"services", "run"}
    /\ Fresh
    /\ difficulty = NotAsked
    /\ projection = NotProjected
    /\ limits = [requests |-> 0, checks |-> 0, updates |-> 0, ticks |-> 0]

SetNext ==
    \/ \E p \in Callers, value \in SetValues : set_setting_query(p, SetKey, value)
    \/ \E p \in Callers : set_setting_commit(p)

SetSpec == SetInit /\ [][SetNext]_vars

(***************************************************************************)
(* Starting the application again on its database: create_app of run.py    *)
(* and init_db of the legacy revision, between settings updates.           *)
(***************************************************************************)
MaxStartups == 2

\* The columns of the one settings row of the legacy revision and the row
\* that init_db inserts into an empty table.
LegacyColumns ==
    {"temp_limit", "vr_temp_limit", "shares_reject_limit",
     "offline_alarm_enabled", "power_consumption_limit"}
LegacyDefaults(k) ==
    CASE k = "temp_limit" -> <<NumText(65)>>
      [] k = "vr_temp_limit" -> <<NumText(75)>>
      [] k = "shares_reject_limit" -> <<NumText(1)>>
      [] k = "offline_alarm_enabled" -> <<NumText(1)>>
      [] k = "power_consumption_limit" -> <<NumText(20)>>
      [] OTHER -> <<>>

\* One record of the history variable startups.
Startup(recreated, after) ==
    [revision |-> revision, recreated |-> recreated, before |-> settings,
     after |-> after]

\* The start of run.py: db.create_all(); if the probe query of the settings
\* table raises (query_ok = FALSE: the table has another schema, or the
\* database fails), db.drop_all() and db.create_all() empty every table;
\* then the defaults are inserted for the keys without a row.
create_app(query_ok) ==
    /\ revision = "run"
    /\ Len(startups) < limits.checks
    /\ settings' = SeedDefaults(IF query_ok THEN settings ELSE NoSettings)
    /\ miner_data' = IF query_ok THEN miner_data ELSE <<>>
    /\ startups' = Append(startups,
           Startup(~query_ok, SeedDefaults(IF query_ok THEN settings
                                           ELSE NoSettings)))
    /\ loop' = Slept(0)
    /\ UNCHANGED <<revision, ingests, sched, dash, projection, now, ticks, alert_logs, notifications, requests,
                   checks, updates, scheduler_cooldown, limits, difficulty,
                   overview, cleanups, set_calls>>

\* init_db of the legacy revision: CREATE TABLE IF NOT EXISTS, and the
\* default row when the table is empty.
init_db ==
    /\ revision = "legacy"
    /\ Len(startups) < limits.checks
    /\ LET empty == \A k \in LegacyColumns : settings[k] = <<>>
           after == [k \in SettingKeys |->
                        IF empty /\ k \in LegacyColumns THEN LegacyDefaults(k)
                        ELSE settings[k]]
       IN /\ settings' = after
          /\ startups' = Append(startups, Startup(FALSE, after))
    /\ UNCHANGED <<revision, ingests, sched, dash, projection, now, ticks, miner_data, alert_logs, notifications,
                   requests, checks, updates, scheduler_cooldown, limits, loop,
                   difficulty, overview, cleanups, set_calls>>

\* update_settings of db/database.py: UPDATE of the five columns of the
\* latest row (no row: nothing is updated).
LegacySettingsRows ==
    {[k \in LegacyColumns |->
        IF k = "temp_limit" THEN NumText(t) ELSE LegacyDefaults(k)[1]] :
     t \in {60, 70}}

update_settings_row(row) ==
    /\ revision = "legacy"
    /\ updates < limits.updates
    /\ settings' = [k \in SettingKeys |->
                       IF k \in LegacyColumns /\ settings[k] # <<>>
                       THEN <<row[k]>> ELSE settings[k]]
    /\ updates' = updates + 1
    /\ UNCHANGED <<revision, ingests, sched, dash, projection, now, ticks, miner_data, alert_logs, notifications,
                   requests, checks, scheduler_cooldown, limits, loop,
                   difficulty, overview, cleanups, set_calls, startups>>

StartInit ==
    /\ revision \in {"run", "legacy"}
    /\ Fresh
    /\ difficulty = NotAsked
    /\ projection = NotProjected
    /\ limits = [requests |-> MaxRunRequests, checks |-> MaxStartups,
                 updates |-> MaxUpdates, ticks |-> 0]

StartNext ==
    \/ \E query_ok \in BOOLEAN : create_app(query_ok)
    \/ \E form \in SettingsForms : handle_settings_actions(form)
    \/ \E body \in Bodies(RunPayloads) : receive_data_run(body, TRUE)
    \/ init_db
    \/ \E row \in LegacySettingsRows : update_settings_row(row)

StartSpec == StartInit /\ [][StartNext]_vars

(***************************************************************************)
(* POST /api/data of the services revision handled by several request      *)
(* threads.  Nothing in the handler or in AlertService takes a lock: each   *)
(* statement that reaches the database is a transaction of its own.  A      *)
(* request is modelled in two steps, cut between the cooldown query of the  *)
(* high_temp rule (alerts.py line 49) and the _send_alert that follows it   *)
(* (line 50).                                                               *)
(***************************************************************************)
MaxRaceRequests == 2

RacePayloads == {BasePayload, [BasePayload EXCEPT !.temp = Some(70)]}

\* Lines 34-104 of receive_miner_data and lines 44-49 of
\* _check_temperature_alerts: the previous sample is read, the new row is
\* committed, AlertService() reads the cooldown, and the high_temp rule is
\* decided: threshold test and cooldown query.
receive_miner_data_insert(p, body) ==
    /\ revision = "services"
    /\ ingests[p].pc = "idle"
    /\ Len(requests) + Cardinality({q \in Callers : ingests[q].pc # "idle"})
         < limits.requests
    /\ body.kind = "object" /\ ~MissingRequired(body.data)
    /\ LET row == NewRow(body.data, MaxId(miner_data) + 1, now)
           cd == get_setting(settings, "alert_cooldown_minutes",
                             PyFloat(DefaultCooldownMinutes))
       IN /\ miner_data' = Append(miner_data, row)
          /\ ingests' = [ingests EXCEPT ![p] =
                 [pc |-> "decided", row |-> row,
                  prev |-> LatestRow(miner_data), cd |-> cd,
                  first |-> Threshold(alert_logs, now, cd, row.temp,
                                get_setting(settings, "temp_limit",
                                            PyFloat(DefaultTempLimit)),
                                "high_temp"),
                  rows_before |-> Len(miner_data)]]
    /\ UNCHANGED <<revision, now, ticks, settings, alert_logs, notifications,
                   requests, checks, updates, scheduler_cooldown, limits, loop,
                   difficulty, overview, cleanups, set_calls, startups, sched,
                   dash, projection>>

\* The checks of check_alerts that follow the high_temp rule, in order.
RestOfChecks(data, previous_data, S, logs, t, cd) ==
    Then(Threshold(logs, t, cd, data.vr_temp,
                   get_setting(S, "vr_temp_limit", PyFloat(DefaultVrTempLimit)),
                   "high_vr_temp"),
    Then(CriticalCheck(data, get_setting(S, "temp_limit",
                                         PyFloat(DefaultTempLimit))),
    Then(_check_power_alerts(data, S, logs, t, cd),
    Then(_check_performance_alerts(data, previous_data, S, logs, t, cd),
    Then(_check_network_alerts(data, previous_data),
         _check_achievement_alerts(data, previous_data))))))

\* The rest of the request: _send_alert of the high_temp alert if the rule
\* decided to raise it, the remaining checks with their alerts, and the
\* answer 200.
receive_miner_data_alert(p, result) ==
    /\ ingests[p].pc = "decided"
    /\ LET call == ingests[p]
           sent_first == SendAll([logs |-> alert_logs, notifs |-> notifications],
                                 call.first.alerts, settings, now, result,
                                 call.row.id)
           rest == IF call.first.raised THEN NoAlerts
                   ELSE RestOfChecks(call.row, call.prev, settings,
                                     sent_first.logs, now, call.cd)
           ev == Then(call.first, rest)
           st == SendAll(sent_first, rest.alerts, settings, now, result,
                         call.row.id)
       IN /\ alert_logs' = st.logs
          /\ notifications' = st.notifs
          /\ requests' = Append(requests,
                 [Request([kind |-> "object", data |-> BasePayload], 200,
                          call.row.id,
                          IF call.prev = None THEN 0 ELSE call.prev[1].id,
                          TRUE, ev.raised, Types(ev.alerts),
                          Types(SubSeq(st.notifs, Len(notifications) + 1,
                                       Len(st.notifs))),
                          <<>>, result)
                  EXCEPT !.rows_before = call.rows_before])
          /\ ingests' = [ingests EXCEPT ![p] = IdleThread]
    /\ UNCHANGED <<revision, now, ticks, miner_data, settings, checks, updates,
                   scheduler_cooldown, limits, loop, difficulty, overview,
                   cleanups, set_calls, startups, sched, dash, projection>>

RaceInit ==
    /\ revision = "services"
    /\ Fresh
    /\ difficulty = NotAsked
    /\ projection = NotProjected
    /\ limits = [requests |-> MaxRaceRequests, checks |-> 0,
                 updates |-> MaxUpdates, ticks |-> MaxTicks]

RaceNext ==
    \/ \E p \in Callers, body \in Bodies(RacePayloads) :
          receive_miner_data_insert(p, body)
    \/ \E p \in Callers, result \in SendResults : receive_miner_data_alert(p, result)
    \/ \E body \in EvalBodies : update_settings(body)
    \/ \E d \in TickSteps : Tick(d)

RaceSpec == RaceInit /\ [][RaceNext]_vars

(***************************************************************************)
(* The reject rate rule of the services revision over samples with every   *)
(* combination of a few share counts, with the default limit (0.5) and with *)
(* a stored limit of 0.                                                     *)
(***************************************************************************)
MaxRejectRequests == 2

ShareCounts == {0, 1, 100}

RejectPayloads ==
    {[BasePayload EXCEPT !.sharesAccepted = Some(a), !.sharesRejected = Some(r)] :
        a \in ShareCounts, r \in ShareCounts}

RejectBodies ==
    {[k \in {"reject_rate_limit"} |-> JNum(0)],
     [k \in {"telegram_enabled"} |-> JBool(TRUE)]}

RejectInit ==
    /\ revision = "services"
    /\ Fresh
    /\ difficulty = NotAsked
    /\ projection = NotProjected
    /\ limits = [requests |-> MaxRejectRequests, checks |-> 0,
                 updates |-> MaxUpdates, ticks |-> MaxTicks]

RejectNext ==
    \/ \E body \in [kind : {"object"}, data : RejectPayloads],
          result \in SendResults :
          receive_miner_data(body, TRUE, result)
    \/ \E body \in RejectBodies : update_settings(body)
    \/ \E d \in TickSteps : Tick(d)

RejectSpec == RejectInit /\ [][RejectNext]_vars

(***************************************************************************)
(* The watchdog under fair scheduling: the loop thread is never starved    *)
(* (an iteration that can run eventually runs) and its queries succeed.    *)
(***************************************************************************)
LiveNext ==
    \/ \E body \in Bodies(LoopPayloads), result \in SendResults :
          receive_miner_data(body, TRUE, result)
    \/ \E body \in SettingsBodies : update_settings(body)
    \/ \E result \in SendResults : _check_miner_status(TRUE, result)
    \/ \E body \in Bodies(LoopPayloads) : receive_data_run(body, TRUE)
    \/ \E result \in SendResults : monitoring_loop(result)
    \/ \E form \in LoopForms : handle_settings_actions(form)
    \/ \E d \in TickSteps : Tick(d)

LiveSpec ==
    /\ LoopInit
    /\ [][LiveNext]_vars
    /\ WF_vars(\E result \in SendResults : _check_miner_status(TRUE, result))
    /\ WF_vars(\E result \in SendResults : monitoring_loop(result))

(***************************************************************************)
(* Properties.  The histories requests and checks carry, for every handled *)
(* request or watchdog run, what the handler saw and what it did.          *)
(***************************************************************************)
\* The row a request stored (status 200).
RowOfRequest(r) ==
    CHOOSE row \in {miner_data[i] : i \in DOMAIN miner_data} : row.id = r.id

\* The settings as the handler of request r read them.
TempLimitAt(r) == get_setting(r.settings, "temp_limit", PyFloat(DefaultTempLimit))
CooldownAt(r) ==
    get_setting(r.settings, "alert_cooldown_minutes", PyFloat(DefaultCooldownMinutes))
TelegramAt(r) == PyTruthy(get_setting(r.settings, "telegram_enabled", PyBool(FALSE)))

\* An ingestion of the services revision that stored its sample, handled
\* with a numeric temperature threshold and a numeric cooldown.
Ingested(r) ==
    /\ r.revision = "services"
    /\ r.status = 200
    /\ IsNumber(TempLimitAt(r))
    /\ IsNumber(CooldownAt(r))

\* An alert of that type was logged inside the cooldown window before
\* request r was handled.
LoggedBefore(r, type) ==
    \E i \in DOMAIN alert_logs :
        /\ alert_logs[i].id <= r.alerts_before
        /\ alert_logs[i].alert_type = type
        /\ alert_logs[i].timestamp > r.time - CooldownAt(r).n

\* The temp of the sample of request r is a number above the threshold.
Hot(r) ==
    /\ RowOfRequest(r).temp # None
    /\ RowOfRequest(r).temp[1] > TempLimitAt(r).n

\* ... above the threshold plus 10.
Critical(r) ==
    /\ RowOfRequest(r).temp # None
    /\ RowOfRequest(r).temp[1] > TempLimitAt(r).n + CriticalMargin

\* Requests i and i+1 are two ingestions, one handled after the other inside
\* the cooldown window, both over the temperature threshold, with
\* notifications enabled and no high_temp alert in the window before them.
HotPair(i) ==
    /\ i \in DOMAIN requests /\ i + 1 \in DOMAIN requests
    /\ Ingested(requests[i]) /\ Ingested(requests[i + 1])
    /\ TelegramAt(requests[i]) /\ TelegramAt(requests[i + 1])
    /\ requests[i + 1].time - requests[i].time < CooldownAt(requests[i + 1]).n
    /\ Hot(requests[i]) /\ Hot(requests[i + 1])
    /\ ~LoggedBefore(requests[i], "high_temp")

\* Neither sample of the pair reads exactly 0 degrees.
NonZeroPair(i) ==
    /\ RowOfRequest(requests[i]).temp # Some(0)
    /\ RowOfRequest(requests[i + 1]).temp # Some(0)

\* How many of the two samples are over the threshold plus 10.
CriticalInPair(i) ==
    (IF Critical(requests[i]) THEN 1 ELSE 0)
        + (IF Critical(requests[i + 1]) THEN 1 ELSE 0)

\* C1 (as claimed): for every alert type other than critical_temp, two
\* notifications of that type that reached the sink are at least
\* alert_cooldown_minutes apart (services revision and run.py).
C1_OneNotificationPerCooldownWindow ==
    LET cd == get_setting(settings, "alert_cooldown_minutes",
                          PyFloat(DefaultCooldownMinutes))
    IN (revision \in {"services", "run"} /\ IsNumber(cd)) =>
         \A i, j \in DOMAIN notifications :
            (/\ i < j
             /\ notifications[i].alert_type = notifications[j].alert_type
             /\ notifications[i].alert_type # "critical_temp"
             /\ notifications[i].result = "ok"
             /\ notifications[j].result = "ok")
            => notifications[j].time - notifications[i].time >= cd.n

C4_CriticalTempAlwaysLoggedAndSent ==
    \A i \in DOMAIN requests :
        (Ingested(requests[i]) /\ Critical(requests[i])) =>
            /\ Has(requests[i].logged, "critical_temp")
            /\ TelegramAt(requests[i]) => Has(requests[i].sent, "critical_temp")

\* C5 (as claimed): outside the cooldown window, evaluating an ingested
\* sample logs a high_temp event iff its temp is not null and above the
\* threshold, for every temp and threshold, 0 and negative values included.
C5_HighTempIffAboveThreshold ==
    \A i \in DOMAIN requests :
        (Ingested(requests[i]) /\ ~LoggedBefore(requests[i], "high_temp")) =>
            (Has(requests[i].logged, "high_temp") <=> Hot(requests[i]))

\* The id of the sample that was the latest in the store when request r
\* arrived (0: the store was empty).
LatestBefore(r) ==
    IF r.rows_before = 0 THEN 0
    ELSE LatestRow(SubSeq(miner_data, 1, r.rows_before))[1].id

\* C6 (as claimed): in every ingestion that evaluates alert rules, the
\* previous sample handed to the evaluator is the latest sample of the store
\* before the insert, and the evaluator acts only after the new sample has
\* been inserted: nothing is notified before the insert, and a request that
\* logged or notified an alert has stored its sample.
C6_PreviousReadBeforeInsertEvaluatedAfter ==
    \A i \in DOMAIN requests :
        /\ requests[i].evaluated =>
              /\ requests[i].prev = LatestBefore(requests[i])
              /\ requests[i].early = <<>>
        /\ (requests[i].logged # <<>> \/ requests[i].sent # <<>>) =>
              /\ requests[i].status = 200
              /\ requests[i].id = requests[i].rows_before + 1

\* C7: in the services revision and in run.py, a step that handles an
\* ingestion whose write fails (a JSON object answered 500) leaves the samples,
\* the alert log and the notifications as they were, and the request has
\* evaluated no rule, logged no alert and sent nothing.
C7_StorageFailureNoSideEffects ==
    [][(/\ Len(requests') = Len(requests) + 1
        /\ requests'[Len(requests')].revision \in {"services", "run"}
        /\ requests'[Len(requests')].kind = "object"
        /\ requests'[Len(requests')].status = 500)
       => (/\ miner_data' = miner_data
           /\ alert_logs' = alert_logs
           /\ notifications' = notifications
           /\ ~requests'[Len(requests')].evaluated
           /\ requests'[Len(requests')].id = 0
           /\ requests'[Len(requests')].logged = <<>>
           /\ requests'[Len(requests')].sent = <<>>)]_vars

\* C7 witness: with notifications enabled, an ingestion of the services
\* revision was answered 500 for a storage error and the store, the alert log
\* and the notifications are empty.
C7_Witness ==
    /\ \E i \in DOMAIN requests :
          /\ requests[i].revision = "services"
          /\ requests[i].kind = "object"
          /\ requests[i].status = 500
          /\ TelegramAt(requests[i])
    /\ miner_data = <<>>
    /\ alert_logs = <<>>
    /\ notifications = <<>>

\* C8 (as claimed): an ingestion whose body is empty or not valid JSON is
\* answered 400 and stores, logs and sends nothing.
C8_InvalidBodyAnswered400 ==
    \A i \in DOMAIN requests :
        requests[i].kind \in {"empty", "malformed"} =>
            /\ requests[i].status = 400
            /\ requests[i].id = 0
            /\ requests[i].logged = <<>>
            /\ requests[i].sent = <<>>

\* C9: an ingestion of the services revision whose notification send fails
\* is still answered 200 with the id of the new row; the row is in the store
\* and every alert event of the request is in the alert log.
C9_FailedSendKeepsSampleAndAlertEvent ==
    \A i \in DOMAIN requests :
        (requests[i].revision = "services" /\ requests[i].result = "failed") =>
            /\ requests[i].status = 200
            /\ requests[i].id = requests[i].rows_before + 1
            /\ \E k \in DOMAIN miner_data : miner_data[k].id = requests[i].id
            /\ \A k \in DOMAIN requests[i].logged :
                  \E j \in DOMAIN alert_logs :
                      /\ alert_logs[j].id = requests[i].alerts_before + k
                      /\ alert_logs[j].alert_type = requests[i].logged[k]
                      /\ alert_logs[j].timestamp = requests[i].time

\* C9 witness: an ingestion raised two alerts, the send of both failed, and
\* the request was answered 200.
C9_Witness ==
    \E i \in DOMAIN requests :
        /\ requests[i].revision = "services"
        /\ requests[i].result = "failed"
        /\ Len(requests[i].sent) = 2
        /\ requests[i].status = 200
        /\ Len(alert_logs) >= 2

\* An alert of that type was logged inside the scheduler's cooldown window
\* before watchdog run c.
CheckLoggedBefore(c, type) ==
    \E i \in DOMAIN alert_logs :
        /\ alert_logs[i].id <= c.alerts_before
        /\ alert_logs[i].alert_type = type
        /\ alert_logs[i].timestamp > c.time - scheduler_cooldown.n

\* The watchdog run c was free to raise: legacy check, or services check with
\* offline alerts enabled and no cooldown active.
WatchdogArmed(c) ==
    \/ c.revision = "legacy"
    \/ /\ c.revision = "services"
       /\ PyTruthy(get_setting(c.settings, "offline_alert_enabled", PyBool(TRUE)))
       /\ ~CheckLoggedBefore(c, "miner_offline")
       /\ ~CheckLoggedBefore(c, "no_data")

\* C10 (as claimed): a watchdog run raises miner_offline iff the latest
\* sample is more than 30 minutes old, however old, and no_data iff the
\* store is empty.
C10_OfflineIffStaleNoDataIffEmpty ==
    \A i \in DOMAIN checks :
        WatchdogArmed(checks[i]) =>
            /\ Has(checks[i].alerts, "miner_offline")
                 <=> /\ checks[i].latest # None
                     /\ checks[i].time - checks[i].latest[1] > OfflineMinutes
            /\ Has(checks[i].alerts, "no_data") <=> checks[i].latest = None

\* The loop as iteration i left it.
LoopAfter(i) == IF i < Len(checks) THEN checks[i + 1].loop ELSE loop

\* An iteration failed: its check ended by an exception, or an exception
\* reached the handler of the loop.
FailingIteration(i) == checks[i].error \/ LoopAfter(i).caught

StoppedReporting ==
    /\ LatestRow(miner_data) # None
    /\ LatestRow(miner_data)[1].timestamp < now - OfflineMinutes
    /\ Len(requests) = limits.requests

\* Offline alerting is enabled and stays so: no settings update is left.
\* (run.py has no such setting: its alerting cannot be disabled.)
OfflineAlertingEnabled ==
    /\ PyTruthy(get_setting(settings, "offline_alert_enabled", PyBool(TRUE)))
    /\ updates = limits.updates

\* A run of the watchdog that read the current latest sample raised
\* miner_offline.
OfflineRaised ==
    \E i \in 1..Len(checks) :
        /\ checks[i].latest = LatestTimestamp(miner_data)
        /\ Has(checks[i].alerts, "miner_offline")

NonNumericThreshold(r) ==
    /\ r.revision = "services"
    /\ r.status = 200
    /\ r.evaluated
    /\ ~IsNumber(TempLimitAt(r))
    /\ IsNumber(CooldownAt(r))

\* C13 (as claimed): with a stored temp_limit that is no number, the
\* evaluation does not raise and decides the temperature rule against the
\* default threshold: outside the cooldown window, high_temp is logged iff
\* the temp of the sample is above 66.
C13_NonNumericThresholdFallsBackToDefault ==
    \A i \in DOMAIN requests :
        NonNumericThreshold(requests[i]) =>
            /\ ~requests[i].raised
            /\ ~LoggedBefore(requests[i], "high_temp") =>
                  (Has(requests[i].logged, "high_temp")
                     <=> /\ RowOfRequest(requests[i]).temp # None
                         /\ RowOfRequest(requests[i]).temp[1] > DefaultTempLimit)

\* The best_diff string of the sample a request stored.
BestDiffOf(r) ==
    IF r.revision = "legacy" THEN RowOfRequest(r).best_diff[1]
    ELSE RowOfRequest(r).best_diff

\* Requests i and i+1 stored two consecutive samples, and best_diff rose
\* from one to the other, both strings parsing to a magnitude above 0.
BestDiffRose(i) ==
    /\ i \in DOMAIN requests /\ i + 1 \in DOMAIN requests
    /\ requests[i].status = 200 /\ requests[i + 1].status = 200
    /\ LET old == ParseDifficulty(Chars(BestDiffOf(requests[i])))
           new == ParseDifficulty(Chars(BestDiffOf(requests[i + 1])))
       IN /\ old.kind = "value" /\ new.kind = "value"
          /\ Magnitude(old) > 0
          /\ Magnitude(new) > Magnitude(old)

\* C14 (as claimed): when best_diff rises between two consecutive ingested
\* samples ("50.0M" then "60.0M"), the second ingestion records a
\* new_best_diff alert event whose value is the parsed magnitude of the new
\* best_diff (60,000,000).
C14_NewBestDiffRecordedWithMagnitude ==
    \A i \in DOMAIN requests :
        BestDiffRose(i) =>
            \E k \in DOMAIN alert_logs :
                /\ alert_logs[k].id > requests[i + 1].alerts_before
                /\ alert_logs[k].alert_type = "new_best_diff"
                /\ alert_logs[k].value =
                       Some(Magnitude(ParseDifficulty(
                                Chars(BestDiffOf(requests[i + 1])))))

\* The string ends with one of the suffixes k, M, G, T.
HasKnownSuffix(cs) == cs # <<>> /\ SuffixExp(cs[Len(cs)]) # 0

\* C15 (as claimed): a difficulty string with a suffix in {k, M, G, T} and a
\* numeric mantissa is converted to mantissa * 10^3 / 10^6 / 10^9 / 10^12
\* ("80.8M" gives 80,800,000), and every string without a known suffix, the
\* empty string included, gives the explicit unparsable result and never
\* raises.
C15_SuffixParsedElseUnparsable ==
    difficulty.result # None =>
        LET cs == difficulty.input
            r == difficulty.result[1]
            mantissa == FloatChars(SubSeq(cs, 1, Len(cs) - 1))
        IN /\ (HasKnownSuffix(cs) /\ mantissa # None) =>
                 r = Parsed(mantissa[1].n,
                            SuffixExp(cs[Len(cs)]) - mantissa[1].frac)
           /\ cs = Chars("80.8M") =>
                 (r.kind = "value" /\ Magnitude(r) = 80800000)
           /\ ~HasKnownSuffix(cs) => r = Unparsable

\* The texts by which the projection says that it has not enough data.
InsufficientData ==
    {"No data available.", "No record found for bestSessionDiff.",
     "Invalid best session difficulty."}

\* C16 (as claimed): the difficulty projection never raises, and it returns
\* an explicit insufficient-data result whenever the window is empty or the
\* latest bestSessionDiff string is unparsable.
C16_ProjectionNeverRaises ==
    \A i \in DOMAIN overview :
        LET o == overview[i] IN
        /\ o.outcome.result # "raised"
        /\ o.window = 0 => o.outcome.result \in InsufficientData
        /\ (o.window > 0 /\ o.latest # None
              /\ ParseDifficulty(Chars(o.latest[1])).kind # "value") =>
                 o.outcome.result \in InsufficientData

\* The table a cleanup job prunes, before and after the run.
PrunedBefore(c) == IF c.job = "data" THEN c.data_before ELSE c.alerts_before
PrunedAfter(c) == IF c.job = "data" THEN c.data_after ELSE c.alerts_after

\* C17: a cleanup run deletes exactly the rows of its table that are older
\* than the cutoff (30 days for samples, 7 days for alert log entries),
\* keeps every other row and the other table as they were, and is
\* idempotent: a later run of the same job with the same cutoff deletes
\* nothing and changes nothing.
C17_PruningExactAndIdempotent ==
    /\ \A i \in DOMAIN cleanups :
          LET c == cleanups[i] IN
          /\ c.cutoff = c.time - (IF c.job = "data" THEN DataRetentionMinutes
                                  ELSE AlertRetentionMinutes)
          /\ ~c.error =>
                /\ \A k \in DOMAIN PrunedBefore(c) :
                      PrunedBefore(c)[k].timestamp < c.cutoff <=>
                          ~(\E m \in DOMAIN PrunedAfter(c) :
                                PrunedAfter(c)[m] = PrunedBefore(c)[k])
                /\ PrunedAfter(c) =
                       SelectSeq(PrunedBefore(c), LAMBDA r :
                           \E m \in DOMAIN PrunedAfter(c) : PrunedAfter(c)[m] = r)
          /\ c.error => PrunedAfter(c) = PrunedBefore(c)
          /\ c.job = "data" => c.alerts_after = c.alerts_before
          /\ c.job = "alerts" => c.data_after = c.data_before
    /\ \A i, j \in DOMAIN cleanups :
          (i < j /\ cleanups[i].job = cleanups[j].job
                 /\ cleanups[i].cutoff = cleanups[j].cutoff
                 /\ ~cleanups[i].error) =>
              /\ PrunedAfter(cleanups[j]) = PrunedBefore(cleanups[j])
              /\ Len(PrunedBefore(cleanups[j])) >= Len(PrunedAfter(cleanups[i]))

\* A cleanup deleted an old row and kept a newer one, among them one written
\* exactly at the cutoff, and a second run with the same cutoff followed.
C17_Witness ==
    \E i, j \in DOMAIN cleanups :
        /\ i < j
        /\ cleanups[i].job = cleanups[j].job
        /\ cleanups[i].cutoff = cleanups[j].cutoff
        /\ ~cleanups[i].error /\ ~cleanups[j].error
        /\ Len(PrunedAfter(cleanups[i])) < Len(PrunedBefore(cleanups[i]))
        /\ \E m \in DOMAIN PrunedAfter(cleanups[i]) :
              PrunedAfter(cleanups[i])[m].timestamp = cleanups[i].cutoff

\* The completed calls of set_setting for a key, in the order of completion.
CompletedFor(key) == SelectSeq(set_calls.done, LAMBDA d : d.key = key)

\* C18 (as claimed): after any sequence of set_setting calls, concurrent ones
\* included, every call has completed without error, and get_setting of a
\* key reflects the value of the last completed call for that key.  (The
\* table holds at most one row per key by its unique constraint, which the
\* function settings expresses.)
C18_ConcurrentSetSettingLastWriteWins ==
    /\ \A i \in DOMAIN set_calls.done : ~set_calls.done[i].error
    /\ \A key \in SettingKeys :
          LET done == CompletedFor(key)
          IN done # <<>> =>
                settings[key] = <<Str(done[Len(done)].value)>>

\* C19 (as claimed): a start of the application inserts default settings
\* only for keys that have no row, leaves every stored value unchanged and
\* deletes no setting row.
C19_StartupSeedsOnlyMissingKeys ==
    \A i \in DOMAIN startups :
        \A k \in SettingKeys :
            LET s == startups[i] IN
            /\ s.before[k] # <<>> => s.after[k] = s.before[k]
            /\ s.before[k] = <<>> =>
                  s.after[k] \in {<<>>,
                                  IF s.revision = "run" THEN RunDefaults(k)
                                  ELSE LegacyDefaults(k)}

\* The keys that the settings interface is said to recognize.
ClaimedKeys == RecognizedKeys \cup {"telegram_token", "telegram_chat_id"}

\* C20 (as claimed): a POST /api/settings with a partial JSON object stores
\* str(value) for exactly the keys of the body that are among the nine
\* recognized ones, telegram_token and telegram_chat_id included, and leaves
\* every other setting unchanged.
C20_UpdatesExactlyRecognizedKeys ==
    [][\A body \in SettingsBodies :
          update_settings(body) =>
              \A k \in SettingKeys :
                  settings'[k] = IF k \in DOMAIN body /\ k \in ClaimedKeys
                                 THEN <<Str(body[k])>>
                                 ELSE settings[k]]_vars

\* The fields of a stored row against the values of the payload it was
\* built from.  The services revision stores str() of a difficulty, which
\* for the strings a device posts is the string itself, and '' for a
\* difficulty the payload does not carry; the legacy revision binds every
\* value as posted.
FieldsMatch(row, d) ==
    /\ row.power = d.power /\ row.temp = d.temp /\ row.vr_temp = d.vrTemp
    /\ row.hash_rate = d.hashRate
    /\ row.shares_accepted = d.sharesAccepted
    /\ row.shares_rejected = d.sharesRejected
    /\ row.is_using_fallback_stratum = d.isUsingFallbackStratum
    /\ IF revision = "legacy"
       THEN row.best_diff = d.bestDiff /\ row.best_session_diff = d.bestSessionDiff
       ELSE /\ d.bestDiff # None => row.best_diff = d.bestDiff[1]
            /\ d.bestSessionDiff # None =>
                  row.best_session_diff = d.bestSessionDiff[1]

\* The latest sample as the deployed revision reads it: by timestamp
\* (GET /api/data/latest) or by id (get_latest_data of db/database.py).
LatestSample(rows) ==
    IF revision = "legacy" THEN get_latest_data(rows) ELSE LatestRow(rows)

C22_EveryEventAttemptsNotification ==
    /\ \A i \in DOMAIN requests :
          requests[i].revision = "services" =>
              requests[i].sent = requests[i].logged
    /\ \A i \in DOMAIN checks :
          checks[i].revision = "services" => checks[i].sent = checks[i].alerts

\* C22 (amended): with telegram_enabled set, every alert event that is raised
\* and not suppressed by the cooldown results in exactly one call of the
\* notification sink, in the order of the events; with telegram_enabled unset
\* (the default) or false, the event is logged and the sink is not called.
C22_EveryEventAttemptsNotificationIfEnabled ==
    /\ \A i \in DOMAIN requests :
          requests[i].revision = "services" =>
              requests[i].sent = IF TelegramAt(requests[i])
                                 THEN requests[i].logged ELSE <<>>
    /\ \A i \in DOMAIN checks :
          checks[i].revision = "services" =>
              checks[i].sent = IF TelegramAt(checks[i])
                               THEN checks[i].alerts ELSE <<>>

\* With telegram_enabled set, a single sample with temp above the threshold
\* gave one high_temp alert event and one call of the sink.
C22_Witness ==
    /\ Len(requests) = 1
    /\ requests[1].revision = "services"
    /\ TelegramAt(requests[1])
    /\ requests[1].logged = <<"high_temp">>
    /\ requests[1].sent = <<"high_temp">>
    /\ Types(alert_logs) = <<"high_temp">>
    /\ Types(notifications) = <<"high_temp">>

\* The alert types whose rule asks _is_in_cooldown before _send_alert.
CooldownGated ==
    {"high_temp", "high_vr_temp", "high_power", "high_reject_rate",
     "hash_rate_drop", "no_data", "miner_offline"}

\* C23 (as claimed): under every interleaving of concurrently handled
\* ingestion requests, the cooldown check and the alert-log write of a
\* cooldown-gated rule behave atomically: the sink is never called twice for
\* the same gated alert type by two requests within one cooldown window.
C23_CooldownCheckAndLogAtomic ==
    LET cd == get_setting(settings, "alert_cooldown_minutes",
                          PyFloat(DefaultCooldownMinutes))
    IN (revision = "services" /\ IsNumber(cd)) =>
         \A i, j \in DOMAIN notifications :
            (/\ i < j
             /\ notifications[i].alert_type = notifications[j].alert_type
             /\ notifications[i].alert_type \in CooldownGated
             /\ notifications[i].src # notifications[j].src
             /\ notifications[i].result = "ok"
             /\ notifications[j].result = "ok")
            => notifications[j].time - notifications[i].time >= cd.n

\* The row with that id (0: none).
RowWithId(id) ==
    IF id = 0 THEN None
    ELSE Some(CHOOSE row \in {miner_data[k] : k \in DOMAIN miner_data} : row.id = id)

\* The alert types of the rules of the services revision, each evaluated on
\* its own for the sample of request r: on the settings, the previous sample
\* and the alert log that the request found.  A rule that fails with an error
\* raises no alert and leaves the others alone.
IndependentAlerts(r) ==
    LET data == RowOfRequest(r)
        previous_data == RowWithId(r.prev)
        S == r.settings
        logs == SelectSeq(alert_logs, LAMBDA a : a.id <= r.alerts_before)
        cd == CooldownAt(r)
        temp_limit == get_setting(S, "temp_limit", PyFloat(DefaultTempLimit))
        vr_temp_limit == get_setting(S, "vr_temp_limit", PyFloat(DefaultVrTempLimit))
    IN Types(Threshold(logs, r.time, cd, data.temp, temp_limit, "high_temp").alerts
             \o Threshold(logs, r.time, cd, data.vr_temp, vr_temp_limit,
                          "high_vr_temp").alerts
             \o CriticalCheck(data, temp_limit).alerts
             \o _check_power_alerts(data, S, logs, r.time, cd).alerts
             \o RejectRateCheck(data, S, logs, r.time, cd).alerts
             \o HashRateDropCheck(data, previous_data, logs, r.time, cd).alerts
             \o _check_network_alerts(data, previous_data).alerts
             \o (IF previous_data = None THEN <<>>
                 ELSE BestCheck(data.best_diff, previous_data[1].best_diff,
                                "new_best_diff").alerts
                      \o BestCheck(data.best_session_diff,
                                   previous_data[1].best_session_diff,
                                   "new_session_best").alerts))

\* The same for the rules of the legacy revision, which notifies for each
\* rule that fires.
IndependentLegacy(r) ==
    LET data == RowOfRequest(r)
        last_data == RowWithId(r.prev)
    IN (IF last_data # None /\ StrLess(last_data[1].best_diff[1], data.best_diff[1])
        THEN <<"new_best_diff">> ELSE <<>>)
       \o (IF last_data # None
              /\ StrLess(last_data[1].best_session_diff[1], data.best_session_diff[1])
           THEN <<"new_session_best">> ELSE <<>>)
       \o LegacyLate([temp |-> data.temp, vrTemp |-> data.vr_temp,
                      isUsingFallbackStratum |-> data.is_using_fallback_stratum,
                      sharesRejected |-> data.shares_rejected,
                      sharesAccepted |-> data.shares_accepted])

\* C24 (as claimed): each alert rule is evaluated for every ingested sample
\* independently of the others: the alerts of a request are those of every
\* rule taken on its own, whether another rule fired, was suppressed by the
\* cooldown or failed with an error.
C24_RulesEvaluatedIndependently ==
    \A i \in DOMAIN requests :
        /\ (requests[i].revision = "services" /\ requests[i].status = 200) =>
              requests[i].logged = IndependentAlerts(requests[i])
        /\ (requests[i].revision = "legacy" /\ requests[i].status = 200) =>
              requests[i].sent = IndependentLegacy(requests[i])

\* C25 (as claimed): for all non-negative share counts with accepted +
\* rejected > 0, outside the cooldown window the high_reject_rate rule fires
\* for an ingested sample iff rejected / (accepted + rejected) is greater than
\* the configured reject_rate_limit taken as a fraction (100 * rejected >
\* (100 * limit) * total).
C25_RejectRateFiresIffAboveLimit ==
    \A i \in DOMAIN requests :
        LET r == requests[i]
            limit == RejectLimitTimes100(r.settings)
        IN (/\ Ingested(r)
            /\ IsNumber(limit)
            /\ ~LoggedBefore(r, "high_reject_rate")
            /\ RowOfRequest(r).shares_accepted # None
            /\ RowOfRequest(r).shares_rejected # None
            /\ RowOfRequest(r).shares_accepted[1] >= 0
            /\ RowOfRequest(r).shares_rejected[1] >= 0
            /\ RowOfRequest(r).shares_accepted[1]
                 + RowOfRequest(r).shares_rejected[1] > 0)
           => (Has(r.logged, "high_reject_rate")
                 <=> 100 * RowOfRequest(r).shares_rejected[1]
                       > limit.n * (RowOfRequest(r).shares_accepted[1]
                                      + RowOfRequest(r).shares_rejected[1]))

\* The alert events of a stored request: the rows it logged (services) or
\* the messages it sent (legacy, which keeps no alert log).
EventsOf(r) == IF r.revision = "legacy" THEN r.sent ELSE r.logged

\* The sample of request r uses the fallback stratum / the sample ingested
\* before it exists and used it.
UsesFallback(r) == RowOfRequest(r).is_using_fallback_stratum
PreviousUsedFallback(r) ==
    RowWithId(r.prev) # None /\ RowWithId(r.prev)[1].is_using_fallback_stratum

\* C26 (as claimed): across consecutive ingested samples, a fallback_stratum
\* event is raised exactly when the current sample uses the fallback stratum
\* and the previous sample did not or is absent, and a stratum_recovery event
\* exactly when the current sample does not use it and the previous sample
\* did; no event of either type is raised while the flag stays unchanged.
C26_FallbackEventsOnTransitionsOnly ==
    \A i \in DOMAIN requests :
        LET r == requests[i] IN
        (r.revision \in {"services", "legacy"} /\ r.status = 200) =>
            /\ Has(EventsOf(r), "fallback_stratum")
                 <=> (UsesFallback(r) /\ ~PreviousUsedFallback(r))
            /\ Has(EventsOf(r), "stratum_recovery")
                 <=> (~UsesFallback(r) /\ PreviousUsedFallback(r))

\* C27: for every mean hash rate and every positive best-session difficulty,
\* each of the chances per day, per month and per year that the projection
\* reports is at most 0.9999.
C27_ChancesAtMostCap ==
    (projection.result # None /\ projection.result[1].kind = "chances") =>
        /\ ~Exceeds(projection.result[1].day, 9999, 10000)
        /\ ~Exceeds(projection.result[1].month, 9999, 10000)
        /\ ~Exceeds(projection.result[1].year, 9999, 10000)

\* The cooldown window that the settings hold at this moment.
CurrentCooldown ==
    get_setting(settings, "alert_cooldown_minutes",
                PyFloat(DefaultCooldownMinutes))

\* C28: after alert_cooldown_minutes was changed through the settings
\* interface, every cooldown check uses the value stored at the time of the
\* check: a run of the offline watchdog and an ingestion raise exactly the
\* events that their rules raise under the current cooldown window.
C28_CooldownReadAtCheckTime ==
    [][/\ \A result \in SendResults :
            _check_miner_status(TRUE, result) =>
                checks'[Len(checks')].alerts =
                    Types(check_offline_status(miner_data, settings, alert_logs,
                                               now, CurrentCooldown).alerts)
       /\ \A result \in SendResults :
            receive_miner_data([kind |-> "object", data |-> BasePayload], TRUE,
                               result) =>
                requests'[Len(requests')].logged =
                    Types(check_alerts(NewRow(BasePayload, MaxId(miner_data) + 1,
                                              now),
                                       LatestRow(miner_data), settings,
                                       alert_logs, now, CurrentCooldown).alerts)
      ]_vars

\* C29: after any sequence of start_scheduler / stop_scheduler calls and of
\* SchedulerService.start / stop, at most one scheduler thread is running,
\* each of the four periodic tasks is registered at most once, and no task
\* runs more than once per period.
C29_OneThreadOneRegistration ==
    /\ Cardinality({th \in DOMAIN sched.threads : sched.threads[th].alive}) <= 1
    /\ \A k \in DOMAIN Tasks :
          Cardinality({j \in DOMAIN sched.jobs :
                          sched.jobs[j].task = Tasks[k]}) <= 1
    /\ \A a, b \in DOMAIN sched.runs :
          (a < b /\ sched.runs[a].task = sched.runs[b].task) =>
              sched.runs[b].time - sched.runs[a].time
                  >= PeriodMinutes(sched.runs[a].task)

\* A sample was stored between the previous poll of the client and poll p.
NewSampleSince(p) == p.seen # None /\ p.latest > p.seen[1]

\* C30: whenever a sample was stored since a client's previous poll, the
\* client's next poll of the last-data-received callback sets its time to
\* the time of the poll, for every client and every interleaving of polls;
\* a poll with no new sample keeps the time the client had stored.
C30_EveryClientSeesNewSample ==
    \A i \in DOMAIN dash.polls :
        LET p == dash.polls[i]
        IN /\ NewSampleSince(p) => p.after = Some(p.time)
           /\ (p.seen # None /\ ~NewSampleSince(p)) => p.after = p.before

====
